---- MODULE Spec2Model ----
(***************************************************************************)
(* Five-plate crossflow PCHE reduced-order model (PCHE_5_plate_unit.py).   *)
(*                                                                         *)
(* The class crossflow_PCHE is modelled as one instance record `self`      *)
(* whose fields carry the Python attribute names.  Every method is an      *)
(* operator from an instance record to an instance record; an exception    *)
(* raised inside a method is recorded in the field `exc` and stops the     *)
(* rest of the method, leaving the attributes written so far.              *)
(*                                                                         *)
(* Floating point numbers are carried as integers with the three IEEE      *)
(* specials (NaN, +inf, -inf).  Division rounds toward zero, products and  *)
(* sums saturate to the infinities.  Temperatures are carried in units of  *)
(* 200 K so that the quartic term of the heat-capacity polynomial stays     *)
(* inside the integer range; every temperature threshold of the source is  *)
(* scaled the same way.                                                    *)
(***************************************************************************)
EXTENDS Integers, Sequences, FiniteSets, TLC

(***************************************************************************)
(* Numbers                                                                 *)
(***************************************************************************)
MaxFloat == 999999999
PInf == MaxFloat + 1
NInf == 0 - PInf
NaN == NInf - 1

IsNaN(x) == x = NaN
IsInf(x) == x = PInf \/ x = NInf
IsFinite(x) == x > NInf /\ x < PInf

Abs(x) == IF x < 0 THEN 0 - x ELSE x
Sgn(x) == IF x < 0 THEN 0 - 1 ELSE IF x > 0 THEN 1 ELSE 0
SignedInf(s) == IF s < 0 THEN NInf ELSE PInf

\* An argument of an operator is an expression, evaluated again at each use; the
\* argument of a function is a value.  The arithmetic is therefore held in
\* functions (add, mul, ...) and the operators of the source's names apply them.
neg == [a \in Any |->
    IF IsNaN(a) THEN NaN ELSE IF a = PInf THEN NInf ELSE IF a = NInf THEN PInf ELSE 0 - a]
fneg(a) == neg[a]

add == [a \in Any, b \in Any |->
    IF IsNaN(a) \/ IsNaN(b) THEN NaN
    ELSE IF IsInf(a) /\ IsInf(b) THEN (IF a = b THEN a ELSE NaN)
    ELSE IF IsInf(a) THEN a
    ELSE IF IsInf(b) THEN b
    ELSE IF a + b > MaxFloat THEN PInf
    ELSE IF a + b < 0 - MaxFloat THEN NInf
    ELSE a + b]
fadd(a, b) == add[a, b]

fsub(a, b) == add[a, neg[b]]

mul == [a \in Any, b \in Any |->
    IF IsNaN(a) \/ IsNaN(b) THEN NaN
    ELSE IF IsInf(a) \/ IsInf(b)
         THEN (IF a = 0 \/ b = 0 THEN NaN ELSE SignedInf(Sgn(a) * Sgn(b)))
    ELSE IF a = 0 \/ b = 0 THEN 0
    ELSE IF Abs(a) > MaxFloat \div Abs(b) THEN SignedInf(Sgn(a) * Sgn(b))
    ELSE a * b]
fmul(a, b) == mul[a, b]

\* numpy true division: x/0 is +-inf, 0/0 is nan (a warning, not an exception)
div == [a \in Any, b \in Any |->
    IF IsNaN(a) \/ IsNaN(b) THEN NaN
    ELSE IF IsInf(a) /\ IsInf(b) THEN NaN
    ELSE IF IsInf(a) THEN (IF b < 0 THEN neg[a] ELSE a)
    ELSE IF IsInf(b) THEN 0
    ELSE IF b = 0 THEN (IF a = 0 THEN NaN ELSE SignedInf(Sgn(a)))
    ELSE Sgn(a) * Sgn(b) * (Abs(a) \div Abs(b))]
fdiv(a, b) == div[a, b]

\* np.less_equal / np.greater / np.equal as 0-1 masks; any comparison with nan is False
le == [a \in Any, b \in Any |-> IF IsNaN(a) \/ IsNaN(b) THEN 0 ELSE IF a <= b THEN 1 ELSE 0]
gt == [a \in Any, b \in Any |-> IF IsNaN(a) \/ IsNaN(b) THEN 0 ELSE IF a > b THEN 1 ELSE 0]
eq == [a \in Any, b \in Any |-> IF IsNaN(a) \/ IsNaN(b) THEN 0 ELSE IF a = b THEN 1 ELSE 0]
less_equal(a, b) == le[a, b]
greater(a, b) == gt[a, b]
equal(a, b) == eq[a, b]

\* a**n for a natural n
pow[a \in Any, n \in Any] ==
    IF n = 0 THEN 1 ELSE IF n = 1 THEN a ELSE mul[a, pow[a, n - 1]]
fpow(a, n) == pow[a, n]

\* one base-4 digit of the root: the largest d in 0 .. 3 with (base + d*step)**q <= x
RootDigit(x, q, base, step) ==
    IF pow[base + step, q] > x THEN 0
    ELSE IF pow[base + 2 * step, q] > x THEN 1
    ELSE IF pow[base + 3 * step, q] > x THEN 2
    ELSE 3
\* the digits from the one worth `step` down to the last
RootDigits[x \in Any, q \in Any, base \in Any, step \in Any] ==
    IF step = 0 THEN base
    ELSE RootDigits[x, q, base + step * RootDigit(x, q, base, step), step \div 4]
\* x**(1/q) for q >= 1, the integer r with r**q <= x < (r+1)**q, found digit by
\* digit; nan for a negative base, as numpy gives for a fractional power
root_of == [x \in Any, q \in Any |->
    IF IsNaN(x) \/ x < 0 THEN NaN
    ELSE IF x = PInf THEN PInf
    ELSE IF q = 1 THEN x
    ELSE RootDigits[x, q, 0, 16384]]
root(x, q) == root_of[x, q]
\* x**(p/q)
power(x, p, q) == fpow(root(x, q), p)
\* x**0.5 / np.sqrt
fsqrt(a) == root(a, 2)

(***************************************************************************)
(* Grids: a rows x columns numpy array is a function on 0-based cells      *)
(***************************************************************************)
\* a numpy array holds values: the function is tabulated when it is built
        array(f) == f @@ << >>

Cells(rows, columns) == (0..(rows - 1)) \X (0..(columns - 1))

full(rows, columns, x) == array([rc \in Cells(rows, columns) |-> x])

\* ndarray.ravel(): row-major flattening
        ravel(g, rows, columns) ==
    [a \in Any |-> array([i \in 1..(rows * columns) |-> a[<<(i - 1) \div columns, (i - 1) % columns>>]])][g]

\* Python slice v[lo:hi] of a 0-based vector held as a 1-based sequence;
\* a slice never fails, it is cut at the end of the vector
PySlice(v, lo, hi) ==
    [w \in Any |->
        LET n == Len(w)
            a == IF lo > n THEN n ELSE lo
            b == IF hi > n THEN n ELSE hi
        IN  IF b <= a THEN << >> ELSE SubSeq(w, a + 1, b)][v]

\* reshape that fills the grid column by column
reshape_by_columns(v, rows, columns) ==
    [w \in Any |->
        array([rc \in Cells(rows, columns) |-> w[rc[2] * rows + rc[1] + 1]])][v]

\* ndarray.reshape(rows, columns) is defined only for vectors of rows*columns elements
CanReshape(v, rows, columns) == Len(v) = rows * columns
reshape(v, rows, columns) ==
    [w \in Any |-> array([rc \in Cells(rows, columns) |-> w[rc[1] * columns + rc[2] + 1]])][v]

\* np.roll(g, 1, axis): element (r, c) takes its predecessor along axis, circularly
roll_fwd(g, rows, columns, axis) ==
    [a \in Any |->
        array([rc \in Cells(rows, columns) |->
            IF axis = 0 THEN a[<<(rc[1] + rows - 1) % rows, rc[2]>>]
                        ELSE a[<<rc[1], (rc[2] + columns - 1) % columns>>]])][g]

\* np.roll(g, -1, axis)
roll_rev(g, rows, columns, axis) ==
    [a \in Any |->
        array([rc \in Cells(rows, columns) |->
            IF axis = 0 THEN a[<<(rc[1] + 1) % rows, rc[2]>>]
                        ELSE a[<<rc[1], (rc[2] + 1) % columns>>]])][g]

(***************************************************************************)
(* Python containers                                                       *)
(***************************************************************************)
\* a Python list is a sequence; item(l, i) is l[i] with Python's 0-based index
item(l, i) == l[i + 1]

\* a dict that keeps insertion order: a sequence of <<key, value>> pairs with distinct keys
keys(d) == [e \in Any |-> array([i \in 1..Len(e) |-> e[i][1]])][d]
has_key(d, k) == \E i \in 1..Len(d) : d[i][1] = k
get(d, k) == [e \in Any |-> e[CHOOSE i \in 1..Len(e) : e[i][1] = k][2]][d]
\* dict(zip(ks, vs))
dict_zip(ks, vs) ==
    [k \in Any, v \in Any |-> array([i \in 1..Len(k) |-> <<k[i], v[i]>>])][ks, vs]

RECURSIVE SumSeq(_, _)
SumSeq(s, n) == IF n = 0 THEN 0 ELSE fadd(SumSeq(s, n - 1), s[n])
\* ndarray.sum() of a vector (0.0 for the empty vector)
vsum(s) == [v \in Any |-> SumSeq(v, Len(v))][s]

(***************************************************************************)
(* Property table (import_properties).  thermo_oneline.dat and             *)
(* transport.dat are read at construction; their rows are data, given here *)
(* for three species in the model's units.                                 *)
(***************************************************************************)
Species == {"CO2", "CH4", "H2O"}

cp_a1_list_low  == [s \in Species |-> CASE s = "CO2" -> 2 [] s = "CH4" -> 5 [] OTHER -> 4]
cp_a2_list_low  == [s \in Species |-> CASE s = "CO2" -> 4 [] s = "CH4" -> 3 [] OTHER -> 2]
cp_a3_list_low  == [s \in Species |-> CASE s = "CO2" -> 3 [] s = "CH4" -> 2 [] OTHER -> 1]
cp_a4_list_low  == [s \in Species |-> CASE s = "CO2" -> 2 [] s = "CH4" -> 1 [] OTHER -> 3]
cp_a5_list_low  == [s \in Species |-> CASE s = "CO2" -> 1 [] s = "CH4" -> 2 [] OTHER -> 0]
cp_a1_list_high == [s \in Species |-> CASE s = "CO2" -> 3 [] s = "CH4" -> 6 [] OTHER -> 5]
cp_a2_list_high == [s \in Species |-> CASE s = "CO2" -> 5 [] s = "CH4" -> 4 [] OTHER -> 3]
cp_a3_list_high == [s \in Species |-> CASE s = "CO2" -> 4 [] s = "CH4" -> 3 [] OTHER -> 2]
cp_a4_list_high == [s \in Species |-> CASE s = "CO2" -> 3 [] s = "CH4" -> 2 [] OTHER -> 4]
cp_a5_list_high == [s \in Species |-> CASE s = "CO2" -> 1 [] s = "CH4" -> 2 [] OTHER -> 1]
epsOverKappa_list == [s \in Species |-> CASE s = "CO2" -> 2 [] s = "CH4" -> 1 [] OTHER -> 6]
sigma_list == [s \in Species |-> CASE s = "CO2" -> 4 [] s = "CH4" -> 4 [] OTHER -> 3]
rotationalRelaxation == [s \in Species |-> CASE s = "CO2" -> 2 [] s = "CH4" -> 13 [] OTHER -> 4]
MW_list == [s \in Species |-> CASE s = "CO2" -> 44 [] s = "CH4" -> 16 [] OTHER -> 18]
shape == [s \in Species |-> CASE s = "CO2" -> 1 [] s = "CH4" -> 2 [] OTHER -> 2]

(***************************************************************************)
(* Construction                                                            *)
(***************************************************************************)
\* math.pi in the model's integers
Pi == 3
\* ideal gas constant, J mol-1 K-1
GC == 8
\* solid properties: 8000 kg m-3 carried in g cm-3, 500 J kg-1 K-1 in units of 100
metalrho == 8
metalcp == 5
metalk == 50
\* 1000 K, the switch between the two heat-capacity fits, in units of 200 K
T_switch == 5
\* laminar / turbulent switch
Re_switch == 2300

\* np.linspace(start, stop, num): num points from start, the last one at stop
linspace(start, stop, num) ==
    array([i \in 1..num |->
        IF num = 1 THEN start
        ELSE fadd(start, fdiv(fmul(i - 1, fsub(stop, start)), num - 1))])

\* the attributes that exist only once a method has assigned them
T_attrs == {"utility1_T", "reactant2_T", "fuel3_T", "reactant4_T", "utility5_T",
            "utilityPlate1_T", "reactantPlate2_T", "fuelPlate3_T",
            "reactantPlate4_T", "utilityPlate5_T"}
cp_a_attrs == {"cp_a_reactant2", "cp_a_reactant4", "cp_a_utility1", "cp_a_utility5",
               "cp_a_fuel3"}
molefrac_attrs == {"reactant_molefrac", "utility_molefrac", "fuel_molefrac"}
MW_attrs == {"reactant_MW", "utility_MW", "fuel_MW"}

__init__(reactant, utility, fuel, dimensions) ==
    LET rows == item(dimensions, 2)
        columns == item(dimensions, 3)
        reactant_cs == fdiv(fmul(Pi, fpow(item(dimensions, 0), 2)), 8)
        utility_cs == fdiv(fmul(Pi, fpow(item(dimensions, 1), 2)), 8)
        reactant_dh == fdiv(fmul(Pi, item(dimensions, 0)), 2 + Pi)
        utility_dh == fdiv(fmul(Pi, item(dimensions, 1)), 2 + Pi)
        deltax == item(dimensions, 1) + item(dimensions, 4)
        deltay == item(dimensions, 5)
        deltaz == item(dimensions, 0) + item(dimensions, 4)
        reactant_Vcell == fmul(reactant_cs, deltax)
        utility_Vcell == fmul(utility_cs, deltaz)
        reactantPlate_Vcell == fsub(fmul(fmul(deltax, deltay), deltaz), reactant_Vcell)
        utilityPlate_Vcell == fsub(fmul(fmul(deltax, deltay), deltaz), utility_Vcell)
        hx_area_1 == fmul(item(dimensions, 1), deltaz)
        hx_area_2 == fsub(fmul(deltax, deltaz), hx_area_1)
        hx_area_3 == fmul(fdiv(fmul(Pi, item(dimensions, 1)), 2), deltaz)
        hx_area_4 == fmul(item(dimensions, 0), deltax)
        hx_area_5 == fsub(fmul(deltax, deltaz), hx_area_4)
        hx_area_6 == fmul(fdiv(fmul(Pi, item(dimensions, 0)), 2), deltax)
        hx_area_rP_x == fsub(fmul(deltay, deltaz), reactant_cs)
        hx_area_rP_z == fmul(deltax, deltay)
        zeros == full(rows, columns, 0)
        reactant_L == linspace(fdiv(deltax, 2),
                               fadd(fmul(deltax, columns), fdiv(deltax, 2)), columns)
    IN  [ exc |-> "none",
          attrs |-> {"reactant2_cp", "reactant4_cp", "fuel3_cp", "utility1_cp",
                     "utility_5_cp"},
          reactant |-> reactant, utility |-> utility, fuel |-> fuel,
          dimensions |-> dimensions,
          rows |-> rows, columns |-> columns,
          reactant_cs |-> reactant_cs, utility_cs |-> utility_cs,
          reactant_dh |-> reactant_dh, utility_dh |-> utility_dh,
          fuel_cs |-> reactant_cs, fuel_dh |-> reactant_dh,
          aspectratio |-> 5,
          deltax |-> deltax, deltay |-> deltay, deltaz |-> deltaz,
          reactant_Vcell |-> reactant_Vcell, utility_Vcell |-> utility_Vcell,
          reactantPlate_Vcell |-> reactantPlate_Vcell,
          utilityPlate_Vcell |-> utilityPlate_Vcell,
          fuel_Vcell |-> reactant_Vcell, fuelPlate_Vcell |-> reactantPlate_Vcell,
          utility1_P |-> full(rows, columns, fmul(1, item(utility, 3))),
          reactant2_P |-> full(rows, columns, fmul(1, item(reactant, 3))),
          fuel3_P |-> full(rows, columns, fmul(1, item(fuel, 3))),
          reactant4_P |-> full(rows, columns, fmul(1, item(reactant, 3))),
          utility5_P |-> full(rows, columns, fmul(1, item(utility, 3))),
          hx_area_1 |-> hx_area_1, hx_area_2 |-> hx_area_2, hx_area_3 |-> hx_area_3,
          hx_area_4 |-> hx_area_4, hx_area_5 |-> hx_area_5, hx_area_6 |-> hx_area_6,
          hx_area_rP_x |-> hx_area_rP_x, hx_area_rP_z |-> hx_area_rP_z,
          hx_area_uP_x |-> fmul(deltay, deltaz),
          hx_area_uP_z |-> fsub(fmul(deltax, deltay), utility_cs),
          hx_area_fP_x |-> hx_area_rP_x, hx_area_fP_z |-> hx_area_rP_z,
          metalrho |-> metalrho, metalcp |-> metalcp, metalk |-> metalk,
          GC |-> GC,
          reactant_L |-> reactant_L,
          utility_L |-> linspace(fdiv(deltaz, 2),
                                 fadd(fmul(deltaz, rows), fdiv(deltaz, 2)), rows),
          fuel_L |-> reactant_L,
          \* attributes assigned by later calls; the values below are placeholders
          \* that no method reads while the name is missing from attrs
          utility1_T |-> zeros, reactant2_T |-> zeros, fuel3_T |-> zeros,
          reactant4_T |-> zeros, utility5_T |-> zeros,
          utilityPlate1_T |-> zeros, reactantPlate2_T |-> zeros, fuelPlate3_T |-> zeros,
          reactantPlate4_T |-> zeros, utilityPlate5_T |-> zeros,
          cp_a_reactant2 |-> <<zeros, zeros, zeros, zeros, zeros>>,
          cp_a_reactant4 |-> <<zeros, zeros, zeros, zeros, zeros>>,
          cp_a_utility1 |-> <<zeros, zeros, zeros, zeros, zeros>>,
          cp_a_utility5 |-> <<zeros, zeros, zeros, zeros, zeros>>,
          cp_a_fuel3 |-> <<zeros, zeros, zeros, zeros, zeros>>,
          reactant_molefrac |-> << >>, utility_molefrac |-> << >>, fuel_molefrac |-> << >>,
          reactant_MW |-> 0, utility_MW |-> 0, fuel_MW |-> 0,
          utility1_rho |-> zeros, reactant2_rho |-> zeros, fuel3_rho |-> zeros,
          reactant4_rho |-> zeros, utility5_rho |-> zeros,
          utility1_cp |-> zeros, reactant2_cp |-> zeros, fuel3_cp |-> zeros,
          reactant4_cp |-> zeros, utility5_cp |-> zeros, utility_5_cp |-> zeros,
          utility1_mu |-> zeros, reactant2_mu |-> zeros, fuel3_mu |-> zeros,
          reactant4_mu |-> zeros, utility5_mu |-> zeros,
          utility1_k |-> zeros, reactant2_k |-> zeros, fuel3_k |-> zeros,
          reactant4_k |-> zeros, utility5_k |-> zeros,
          utility1_u |-> zeros, reactant2_u |-> zeros, fuel3_u |-> zeros,
          reactant4_u |-> zeros, utility5_u |-> zeros,
          utility1_Pr |-> zeros, reactant2_Pr |-> zeros, fuel3_Pr |-> zeros,
          reactant4_Pr |-> zeros, utility5_Pr |-> zeros,
          utility1_Re |-> zeros, reactant2_Re |-> zeros, fuel3_Re |-> zeros,
          reactant4_Re |-> zeros, utility5_Re |-> zeros,
          utility1_f |-> zeros, reactant2_f |-> zeros, fuel3_f |-> zeros,
          reactant4_f |-> zeros, utility5_f |-> zeros,
          utility1_Nu |-> zeros, reactant2_Nu |-> zeros, fuel3_Nu |-> zeros,
          reactant4_Nu |-> zeros, utility5_Nu |-> zeros,
          utility1_h |-> zeros, reactant2_h |-> zeros, fuel3_h |-> zeros,
          reactant4_h |-> zeros, utility5_h |-> zeros,
          Q_utility1_fluid |-> zeros, Q_reactant2_fluid |-> zeros, Q_fuel3_fluid |-> zeros,
          Q_reactant4_fluid |-> zeros, Q_utility5_fluid |-> zeros,
          Q_utilityPlate1 |-> zeros, Q_reactantPlate2 |-> zeros, Q_fuelPlate3 |-> zeros,
          Q_reactantPlate4 |-> zeros, Q_utilityPlate5 |-> zeros ]

(***************************************************************************)
(* mol_frac_and_cp                                                         *)
(***************************************************************************)
\* mass and mole fractions are carried in thousandths
One == 1000
\* a / b as a fraction
frac(a, b) == fdiv(fmul(a, One), b)
\* a product with one fraction factor, brought back to plain units
unfrac(x) == fdiv(x, One)

cp_list_low(j) ==
    CASE j = 1 -> cp_a1_list_low [] j = 2 -> cp_a2_list_low [] j = 3 -> cp_a3_list_low
      [] j = 4 -> cp_a4_list_low [] OTHER -> cp_a5_list_low
cp_list_high(j) ==
    CASE j = 1 -> cp_a1_list_high [] j = 2 -> cp_a2_list_high [] j = 3 -> cp_a3_list_high
      [] j = 4 -> cp_a4_list_high [] OTHER -> cp_a5_list_high

\* the first species of the list that the property table does not hold, 0 if none
FirstUnknown(species) ==
    IF \A i \in 1..Len(species) : species[i] \in Species THEN 0
    ELSE CHOOSE i \in 1..Len(species) :
            /\ species[i] \notin Species
            /\ \A k \in 1..(i - 1) : species[k] \in Species

\* One of the three loops `for i in range(len(species))` of mol_frac_and_cp:
\* how many iterations complete and the exception that ends the loop early.
\* Each iteration first looks the species up in MW_list (KeyError), then reads
\* the pass temperatures (AttributeError before the first unwrap).
species_loop(self, composition, T_names) ==
    [species \in Any |->
        LET u == FirstUnknown(species)
    IN  IF Len(species) = 0 THEN [done |-> 0, exc |-> "none"]
        ELSE IF u = 1 THEN [done |-> 0, exc |-> "KeyError"]
        ELSE IF ~(T_names \subseteq self.attrs) THEN [done |-> 0, exc |-> "AttributeError"]
        ELSE IF u = 0 THEN [done |-> Len(species), exc |-> "none"]
        ELSE [done |-> u - 1, exc |-> "KeyError"]][keys(composition)]

\* nmol[i] = composition[species[i]] / MW_list[species[i]] for the first n species
nmol_of(composition, n) ==
    [comp \in Any |-> array([i \in 1..n |-> fdiv(comp[i][2], MW_list[comp[i][1]])])][composition]

\* cp_aj = cp_aj + nmol[i]*(low[species[i]]*less_equal(T_le, 1000)
\*                          + high[species[i]]*greater(T_gt, 1000)), i = 0 .. n-1
RECURSIVE cp_a_cell(_, _, _, _, _, _)
cp_a_cell(j, composition, nmol, n, t_le, t_gt) ==
    IF n = 0 THEN 0
    ELSE fadd(cp_a_cell(j, composition, nmol, n - 1, t_le, t_gt),
              fmul(nmol[n],
                   fadd(fmul(cp_list_low(j)[composition[n][1]], less_equal(t_le, T_switch)),
                        fmul(cp_list_high(j)[composition[n][1]], greater(t_gt, T_switch)))))

cp_a_grid(self, j, composition, nmol, n, T_le, T_gt) ==
    [comp \in Any, moles \in Any |->
        [le_T \in Any, gt_T \in Any |->
        array([rc \in Cells(self.rows, self.columns) |->
                cp_a_cell(j, comp, moles, n, le_T[rc], gt_T[rc])])][T_le, T_gt]][composition, nmol]

\* the five accumulated coefficients of one pass, each read with its own pass temperature
cp_a_pass(self, composition, nmol, n, T) ==
    array([j \in 1..5 |-> cp_a_grid(self, j, composition, nmol, n, T, T)])

\* line 317: cp_a1_utility5 takes its low-range mask from utility5_T and its
\* high-range mask from utility1_T
cp_a_pass_utility5(self, composition, nmol, n) ==
    array([j \in 1..5 |->
        IF j = 1
        THEN cp_a_grid(self, j, composition, nmol, n, self.utility5_T, self.utility1_T)
        ELSE cp_a_grid(self, j, composition, nmol, n, self.utility5_T, self.utility5_T)])

\* cp_a = cp_a / nmol.sum()
cp_a_over(self, cp_a, total) ==
    [a \in Any, sum \in Any |->
        array([j \in 1..5 |->
            array([rc \in Cells(self.rows, self.columns) |-> fdiv(a[j][rc], sum)])])][cp_a, total]

\* np.divide(nmol, nmol.sum())
molefrac_of(nmol) ==
    [moles \in Any |-> [sum \in Any |-> array([i \in 1..Len(moles) |-> frac(moles[i], sum)])][vsum(moles)]][nmol]

RECURSIVE MW_sum(_, _, _)
MW_sum(composition, molefrac, n) ==
    IF n = 0 THEN 0
    ELSE fadd(MW_sum(composition, molefrac, n - 1),
              fmul(molefrac[n], MW_list[composition[n][1]]))

mixture_recomputation(instance) ==
    [self \in Any |->
        LET rc_ == item(self.reactant, 0)
        uc_ == item(self.utility, 0)
        fc_ == item(self.fuel, 0)
        zeros == full(self.rows, self.columns, 0)
        zero5 == <<zeros, zeros, zeros, zeros, zeros>>
        \* lines 271-295: the 25 coefficients are reset
        s0 == [self EXCEPT !.attrs = @ \cup cp_a_attrs,
                           !.cp_a_reactant2 = zero5, !.cp_a_reactant4 = zero5,
                           !.cp_a_utility1 = zero5, !.cp_a_utility5 = zero5,
                           !.cp_a_fuel3 = zero5]
        lr == species_loop(self, rc_, {"reactant2_T", "reactant4_T"})
        lu == species_loop(self, uc_, {"utility1_T", "utility5_T"})
        lf == species_loop(self, fc_, {"fuel3_T"})
        nr == nmol_of(rc_, lr.done)
        nu == nmol_of(uc_, lu.done)
        nf == nmol_of(fc_, lf.done)
        s1 == [s0 EXCEPT !.cp_a_reactant2 = cp_a_pass(self, rc_, nr, lr.done, self.reactant2_T),
                         !.cp_a_reactant4 = cp_a_pass(self, rc_, nr, lr.done, self.reactant4_T),
                         !.exc = lr.exc]
        s2 == [s1 EXCEPT !.cp_a_utility1 = cp_a_pass(self, uc_, nu, lu.done, self.utility1_T),
                         !.cp_a_utility5 = cp_a_pass_utility5(self, uc_, nu, lu.done),
                         !.exc = lu.exc]
        s3 == [s2 EXCEPT !.cp_a_fuel3 = cp_a_pass(self, fc_, nf, lf.done, self.fuel3_T),
                         !.exc = lf.exc]
        reactant_molefrac == molefrac_of(nr)
        utility_molefrac == molefrac_of(nu)
        fuel_molefrac == molefrac_of(nf)
        \* lines 331-376: normalisation, mole fractions, mean molecular weights
        s4 == [s3 EXCEPT
                !.cp_a_reactant2 = cp_a_over(self, @, vsum(nr)),
                !.cp_a_reactant4 = cp_a_over(self, @, vsum(nr)),
                !.cp_a_utility1 = cp_a_over(self, @, vsum(nu)),
                !.cp_a_utility5 = cp_a_over(self, @, vsum(nu)),
                !.cp_a_fuel3 = cp_a_over(self, @, vsum(nf)),
                !.reactant_molefrac = dict_zip(keys(rc_), reactant_molefrac),
                !.utility_molefrac = dict_zip(keys(uc_), utility_molefrac),
                !.fuel_molefrac = dict_zip(keys(fc_), fuel_molefrac),
                !.reactant_MW = unfrac(MW_sum(rc_, reactant_molefrac, Len(rc_))),
                !.utility_MW = unfrac(MW_sum(uc_, utility_molefrac, Len(uc_))),
                !.fuel_MW = unfrac(MW_sum(fc_, fuel_molefrac, Len(fc_))),
                !.attrs = @ \cup molefrac_attrs \cup MW_attrs]
    IN  IF lr.exc # "none" THEN s1
        ELSE IF lu.exc # "none" THEN s2
        ELSE IF lf.exc # "none" THEN s3
        ELSE s4][instance]

\* mol_frac_and_cp that swallows the exception of the recomputation
mol_frac_and_cp_swallowing(instance) ==
    [mixture_recomputation(instance) EXCEPT !.exc = "none"]

\* mol_frac_and_cp that keeps the coefficients of an earlier call once they exist
mol_frac_and_cp_cached(instance) ==
    IF (cp_a_attrs \cup molefrac_attrs \cup MW_attrs) \subseteq instance.attrs
    THEN instance
    ELSE mixture_recomputation(instance)

\* mol_frac_and_cp()
mol_frac_and_cp(instance) == mixture_recomputation(instance)

(***************************************************************************)
(* properties                                                              *)
(***************************************************************************)
\* e**n cut to an integer, n = 0 .. 20
ExpTable == <<1, 2, 7, 20, 54, 148, 403, 1096, 2980, 8103, 22026, 59874, 162754, 442413,
              1202604, 3269017, 8886110, 24154952, 65659969, 178482300, 485165195>>
\* np.exp on the model's integers
np_exp(x) ==
    IF IsNaN(x) THEN NaN
    ELSE IF x < 0 THEN 0
    ELSE IF x >= Len(ExpTable) THEN PInf
    ELSE ExpTable[x + 1]

\* np.log: -inf at zero, nan below
np_log(x) ==
    IF IsNaN(x) \/ x < 0 THEN NaN
    ELSE IF x = 0 THEN NInf
    ELSE IF x = PInf THEN PInf
    ELSE Cardinality({n \in 1..(Len(ExpTable) - 1) : ExpTable[n + 1] <= x})

\* a1 + a2*T + a3*T**2 + a4*T**3 + a5*T**4
cp_poly(a1, a2, a3, a4, a5, t) ==
    fadd(fadd(fadd(fadd(a1, fmul(a2, t)), fmul(a3, fpow(t, 2))), fmul(a4, fpow(t, 3))),
         fmul(a5, fpow(t, 4)))

\* coefficient selected per cell by the two masks
cp_masked(j, sp, t) ==
    fadd(fmul(cp_list_low(j)[sp], less_equal(t, T_switch)),
         fmul(cp_list_high(j)[sp], greater(t, T_switch)))

\* lines 583-643 for one species at one cell: pure-species viscosity and conductivity.
\* The numeric factors are the source's factors in the model's units.
species_visc(sp, t) ==
    [omega \in Any |->
        [visc \in Any |->
            IF sp = "H2O"
            THEN fdiv(fmul(visc, fadd(fadd(fadd(fmul(0 - 7, fpow(t, 3)), fmul(128, fpow(t, 2))),
                                           fmul(870, t)), 7689)), 10000)
            ELSE visc
        ][fdiv(fmul(fdiv(fmul(26693, fsqrt(fmul(MW_list[sp], t))),
                         fmul(fpow(sigma_list[sp], 2), omega)), 98), 100)]
    ][[Tstar \in Any |->
        fadd(fadd(fdiv(116, root(Tstar, 7)),
                  fdiv(52, np_exp(fdiv(fmul(77, Tstar), 1000)))),
             fdiv(216, np_exp(fdiv(fmul(244, Tstar), 1000))))
      ][fdiv(fmul(t, 10), epsOverKappa_list[sp])]]

\* the factors of a species conductivity that depend on the temperature only
species_k_T(sp, t) ==
    [viscosity \in Any, Tstar \in Any, cpi \in Any, FT \in Any, F298 \in Any |->
        [viscosity |-> viscosity,
         omega11 |-> fadd(fadd(fadd(fdiv(106, root(Tstar, 6)),
                                    fdiv(19, np_exp(fdiv(fmul(48, Tstar), 1000)))),
                               fdiv(104, np_exp(fdiv(fmul(153, Tstar), 1000)))),
                          fdiv(176, np_exp(fdiv(fmul(389, Tstar), 1000)))),
         cvi |-> fsub(cpi, fdiv(fmul(GC, 1000), MW_list[sp])),
         ZT |-> fdiv(fmul(fmul(rotationalRelaxation[sp], 10), F298), FT),
         speed |-> fsqrt(fdiv(fmul(fmul(2 * Pi, fpow(t, 3)), 1000), MW_list[sp]))]
    ][species_visc(sp, t),
      fdiv(fmul(t, 10), epsOverKappa_list[sp]),
      fdiv(fmul(fmul(cp_poly(cp_masked(1, sp, t), cp_masked(2, sp, t),
                             cp_masked(3, sp, t), cp_masked(4, sp, t),
                             cp_masked(5, sp, t), t), GC), 1000), MW_list[sp]),
      fadd(fadd(fadd(10, fdiv(fmul(28, fsqrt(fdiv(fmul(100, epsOverKappa_list[sp]), t))), 10)),
                fdiv(fmul(45, epsOverKappa_list[sp]), t)),
           fdiv(fmul(56, fsqrt(fpow(fdiv(fmul(10, epsOverKappa_list[sp]), t), 3))), 30)),
      fadd(fadd(fadd(10, fdiv(fmul(28, fsqrt(fdiv(fmul(100, epsOverKappa_list[sp]), 3))), 10)),
                fdiv(fmul(45, epsOverKappa_list[sp]), 3)),
           fdiv(fmul(56, fsqrt(fpow(fdiv(fmul(10, epsOverKappa_list[sp]), 3), 3))), 30))]

\* the species conductivity at one cell from those factors and the pressure
species_k_P(sp, kT, t, p) ==
    [dDv \in Any, cvirot0 \in Any |->
        [A \in Any, B \in Any, cvitrans \in Any, cvirot \in Any, cvivib \in Any |->
            LET ftrans == fdiv(fmul(5, fsub(10, fdiv(fmul(fmul(2, fdiv(fmul(cvirot, 10), cvitrans)), A),
                                                     fmul(fmul(Pi, B), 10)))), 2)
                frot == fdiv(fmul(dDv, fadd(10, fdiv(fmul(fmul(2, A), 10), fmul(Pi, B)))), 10)
                fvib == dDv
            IN  fmul(kT.viscosity, fdiv(fadd(fadd(fmul(ftrans, cvitrans), fmul(frot, cvirot)),
                                             fmul(fvib, cvivib)), 25000))
        ][fsub(25, dDv),
          fadd(kT.ZT, fdiv(fmul(2, fadd(fdiv(fmul(5, cvirot0), 3), dDv)), Pi)),
          fdiv(fmul(fmul(3, GC), 1000), fmul(2, MW_list[sp])),
          fdiv(fmul(fmul(cvirot0, GC), 1000), fmul(10, MW_list[sp])),
          fadd(fadd(fmul(equal(shape[sp], 0), 0),
                    fmul(equal(shape[sp], 1),
                         fsub(kT.cvi, fdiv(fmul(fmul(5, GC), 1000), fmul(2, MW_list[sp]))))),
               fmul(equal(shape[sp], 2),
                    fsub(kT.cvi, fdiv(fmul(fmul(3, GC), 1000), MW_list[sp]))))]
    ][LET density == fdiv(fdiv(fdiv(fmul(p, MW_list[sp]), GC), t), 1000)
          Dkk == fdiv(fmul(fdiv(fmul(fdiv(fmul(kT.speed, 1000000), p), 3), 16), 100),
                      fmul(fmul(Pi, fpow(sigma_list[sp], 2)), kT.omega11))
      IN  fdiv(fmul(fmul(density, Dkk), 10), kT.viscosity),
      fadd(fadd(fmul(equal(shape[sp], 0), 0), fmul(equal(shape[sp], 1), 10)),
           fdiv(fmul(equal(shape[sp], 2), 30), 2))]

\* lines 583-643: the conductivity of one species at one cell
species_k(sp, t, p) ==
    [kT \in Any |-> species_k_P(sp, kT, t, p)][species_k_T(sp, t)]

\* line 650, in thousandths; viscosity holds the species viscosities of the cell
\* (lines 583-590), in the order of the composition
phi_cell(composition, viscosity, i, j) ==
    fdiv(fmul(fpow(fadd(100, fmul(10, fsqrt(fdiv(fmul(fmul(viscosity[i], 100),
                                                       fsqrt(fdiv(fmul(MW_list[composition[j][1]], 100),
                                                                  MW_list[composition[i][1]]))),
                                                  fmul(viscosity[j], 10))))), 2), One),
         fmul(fmul(28, fsqrt(fmul(100, fadd(1, fdiv(MW_list[composition[i][1]],
                                                    MW_list[composition[j][1]]))))), 100))

RECURSIVE wilke_denominator(_, _, _, _, _)
wilke_denominator(composition, molfractions, viscosity, i, n) ==
    IF n = 0 THEN 0
    ELSE fadd(wilke_denominator(composition, molfractions, viscosity, i, n - 1),
              unfrac(fmul(get(molfractions, composition[n][1]),
                          phi_cell(composition, viscosity, i, n))))

RECURSIVE viscosity_mixture_cell(_, _, _, _)
viscosity_mixture_cell(composition, molfractions, viscosity, n) ==
    IF n = 0 THEN 0
    ELSE fadd(viscosity_mixture_cell(composition, molfractions, viscosity, n - 1),
              fdiv(fmul(get(molfractions, composition[n][1]), viscosity[n]),
                   wilke_denominator(composition, molfractions, viscosity, n, Len(composition))))

\* conductivities holds the species conductivities of the cell, in the order
\* of the composition
RECURSIVE denominator_k_cell(_, _, _, _)
denominator_k_cell(composition, molfractions, conductivities, n) ==
    IF n = 0 THEN 0
    ELSE fadd(denominator_k_cell(composition, molfractions, conductivities, n - 1),
              fdiv(fmul(get(molfractions, composition[n][1]), One), conductivities[n]))

RECURSIVE k_linear_cell(_, _, _, _)
k_linear_cell(composition, molfractions, conductivities, n) ==
    IF n = 0 THEN 0
    ELSE fadd(k_linear_cell(composition, molfractions, conductivities, n - 1),
              fdiv(unfrac(fmul(get(molfractions, composition[n][1]), conductivities[n])), 2))

\* k_mixture + 0.5/denominator_k; with no species denominator_k is the Python
\* int 0 and the division raises
k_mixture_cell(composition, molfractions, conductivities) ==
    fadd(k_linear_cell(composition, molfractions, conductivities, Len(composition)),
         fdiv(fdiv(fmul(One, One), 2),
              denominator_k_cell(composition, molfractions, conductivities, Len(composition))))

\* rho_grid relaxed towards the density the previous call left on the instance
rho_grid_relaxed(self, P, MW, T) ==
    array([rc \in Cells(self.rows, self.columns) |->
        IF "reactant2_rho" \in self.attrs
        THEN fdiv(fadd(self.reactant2_rho[rc],
                       fdiv(fdiv(fdiv(fmul(P[rc], MW), self.GC), T[rc]), 1000)), 2)
        ELSE fdiv(fdiv(fdiv(fmul(P[rc], MW), self.GC), T[rc]), 1000)])

\* rho = P*MW/GC/T/1000
rho_grid(self, P, MW, T) ==
    array([rc \in Cells(self.rows, self.columns) |->
        fdiv(fdiv(fdiv(fmul(P[rc], MW), self.GC), T[rc]), 1000)])

\* cp = (a1 + a2*T + a3*T**2 + a4*T**3 + a5*T**4)*GC/MW*1000
cp_grid(self, cp_a, MW, T) ==
    array([rc \in Cells(self.rows, self.columns) |->
        fmul(fdiv(fmul(cp_poly(cp_a[1][rc], cp_a[2][rc], cp_a[3][rc], cp_a[4][rc],
                               cp_a[5][rc], T[rc]), self.GC), MW), 1000)])

\* the vectorised expressions give equal cells equal values: each distinct
\* temperature (and pressure) is evaluated once
viscosity_mixture_grid(self, composition, molfractions, T) ==
    [value \in Any |-> array([rc \in Cells(self.rows, self.columns) |-> value[T[rc]]])
    ][array([t \in {T[rc] : rc \in Cells(self.rows, self.columns)} |->
        [viscosity \in Any |->
            viscosity_mixture_cell(composition, molfractions, viscosity, Len(composition))
        ][array([n \in 1..Len(composition) |-> species_visc(composition[n][1], t)])]])]

k_mixture_grid(self, composition, molfractions, T, P) ==
    [kT \in Any |-> [value \in Any |-> array([rc \in Cells(self.rows, self.columns) |-> value[<<T[rc], P[rc]>>]])][array([tp \in {<<T[rc], P[rc]>> : rc \in Cells(self.rows, self.columns)} |-> [conductivities \in Any |-> k_mixture_cell(composition, molfractions, conductivities)][array([n \in 1..Len(composition) |-> species_k_P(composition[n][1], kT[tp[1]][n], tp[1], tp[2])])]])]][array([t \in {T[rc] : rc \in Cells(self.rows, self.columns)} |-> array([n \in 1..Len(composition) |-> species_k_T(composition[n][1], t)])])]

\* lines 568-663, after the branch on the fluid name has chosen its inputs
properties_tail(self, s1, composition, molfractions, T, P) ==
    LET zeros == full(self.rows, self.columns, 0)
        failed(e) == [self |-> [s1 EXCEPT !.exc = e], mu |-> zeros, k |-> zeros]
    IN  IF FirstUnknown(keys(composition)) # 0 THEN failed("KeyError")
        ELSE IF Len(composition) = 0 THEN failed("ZeroDivisionError")
        ELSE [self |-> s1,
              mu |-> viscosity_mixture_grid(self, composition, molfractions, T),
              k |-> k_mixture_grid(self, composition, molfractions, T, P)]

\* properties(fluid): assigns <fluid>_rho and <fluid>_cp, returns (viscosity_mixture, k_mixture)
properties(instance, fluid) ==
    [self \in Any |->
        LET zeros == full(self.rows, self.columns, 0)
        failed(e) == [self |-> [self EXCEPT !.exc = e], mu |-> zeros, k |-> zeros]
        needs(names) == names \subseteq self.attrs
    IN  IF self.exc # "none" THEN [self |-> self, mu |-> zeros, k |-> zeros]
        ELSE IF fluid = "reactant2" THEN
            IF ~needs({"reactant_molefrac", "reactant2_T", "reactant_MW", "cp_a_reactant2"})
            THEN failed("AttributeError")
            ELSE properties_tail(self,
                    [self EXCEPT
                        !.reactant2_rho = rho_grid(self, self.reactant2_P, self.reactant_MW, self.reactant2_T),
                        !.reactant2_cp = cp_grid(self, self.cp_a_reactant2, self.reactant_MW, self.reactant2_T),
                        !.attrs = @ \cup {"reactant2_rho", "reactant2_cp"}],
                    item(self.reactant, 0), self.reactant_molefrac, self.reactant2_T, self.reactant2_P)
        ELSE IF fluid = "reactant4" THEN
            IF ~needs({"reactant_molefrac", "reactant4_T", "reactant_MW", "cp_a_reactant4"})
            THEN failed("AttributeError")
            ELSE properties_tail(self,
                    [self EXCEPT
                        !.reactant4_rho = rho_grid(self, self.reactant4_P, self.reactant_MW, self.reactant4_T),
                        !.reactant4_cp = cp_grid(self, self.cp_a_reactant4, self.reactant_MW, self.reactant4_T),
                        !.attrs = @ \cup {"reactant4_rho", "reactant4_cp"}],
                    item(self.reactant, 0), self.reactant_molefrac, self.reactant4_T, self.reactant4_P)
        ELSE IF fluid = "utility1" THEN
            IF ~needs({"utility_molefrac", "utility1_T", "utility_MW", "cp_a_utility1"})
            THEN failed("AttributeError")
            ELSE properties_tail(self,
                    [self EXCEPT
                        !.utility1_rho = rho_grid(self, self.utility1_P, self.utility_MW, self.utility1_T),
                        !.utility1_cp = cp_grid(self, self.cp_a_utility1, self.utility_MW, self.utility1_T),
                        !.attrs = @ \cup {"utility1_rho", "utility1_cp"}],
                    item(self.utility, 0), self.utility_molefrac, self.utility1_T, self.utility1_P)
        ELSE IF fluid = "utility5" THEN
            IF ~needs({"utility_molefrac", "utility5_T", "utility_MW", "cp_a_utility5"})
            THEN failed("AttributeError")
            ELSE properties_tail(self,
                    [self EXCEPT
                        !.utility5_rho = rho_grid(self, self.utility5_P, self.utility_MW, self.utility5_T),
                        !.utility5_cp = cp_grid(self, self.cp_a_utility5, self.utility_MW, self.utility5_T),
                        !.attrs = @ \cup {"utility5_rho", "utility5_cp"}],
                    item(self.utility, 0), self.utility_molefrac, self.utility5_T, self.utility5_P)
        ELSE IF fluid = "fuel3" THEN
            \* line 564 converts fuel3_cp with utility_MW
            IF ~needs({"fuel_molefrac", "fuel3_T", "fuel_MW", "utility_MW", "cp_a_fuel3"})
            THEN failed("AttributeError")
            ELSE properties_tail(self,
                    [self EXCEPT
                        !.fuel3_rho = rho_grid(self, self.fuel3_P, self.fuel_MW, self.fuel3_T),
                        !.fuel3_cp = cp_grid(self, self.cp_a_fuel3, self.utility_MW, self.fuel3_T),
                        !.attrs = @ \cup {"fuel3_rho", "fuel3_cp"}],
                    item(self.fuel, 0), self.fuel_molefrac, self.fuel3_T, self.fuel3_P)
        \* 'Incorrect fluid selected for properties update!' is printed, then
        \* line 569 reads the local name composition, which was never bound
        ELSE failed("UnboundLocalError")][instance]

(***************************************************************************)
(* ff_Nu                                                                   *)
(***************************************************************************)
\* constants for the heat transfer correlations (lines 177-181), C1 in hundredths
\* and C3 in thousandths
C1 == 324
C2 == 1
C3 == 409
C4 == 1

\* math.tanh, in thousandths
tanh(x) ==
    [e \in Any |-> fdiv(fmul(fsub(e, 1), 1000), fadd(e, 1))][np_exp(2 * x)]

\* 12 / (ar**0.5 * (1 + ar) * (1 - 192*ar*pi**-5 * tanh(pi/(2*ar)))), in hundredths;
\* the aspect ratio ar is carried in tenths
fully_developed(aspectratio) ==
    LET blockage == fdiv(fmul(fdiv(fmul(192 * 100, aspectratio), fpow(Pi, 5)),
                              tanh(fdiv(Pi * 10, 2 * aspectratio))), 1000)
    IN  fdiv(fmul(12, 10000000),
             fdiv(fmul(fmul(fsqrt(fmul(aspectratio, 100000)), fadd(10, aspectratio)),
                       fsub(1000, blockage)), 100))

\* line 465, in units of 1e-4
laminar_f_cell(developed, Lplus, reynolds) ==
    fdiv(fmul(fsqrt(fadd(fpow(fdiv(3440, fsqrt(Lplus)), 2),
                         fpow(developed, 2))), 100), reynolds)

\* line 466, in units of 1e-4
turbulent_f_cell(reynolds) ==
    fdiv(fdiv(100000000, fpow(fsub(fmul(79, np_log(reynolds)), 164), 2)), 4)

\* line 470
nusselt_laminar_cell(laminar_f, reynolds, Pr, zstar) ==
    [m \in Any, entry \in Any, developing \in Any, developed \in Any |->
        IF ~IsFinite(m) \/ m < 1 THEN NaN
        ELSE root(fadd(fpow(entry, m),
                       fpow(root(fadd(fpow(developing, 5), fpow(developed, 5)), 5), m)), m)
    ][fdiv(fadd(2270, fmul(165, root(Pr, 3))), 1000),
      [fPr \in Any |-> fdiv(fdiv(fmul(fmul(C4, fPr), 10), fsqrt(zstar)), 100)
      ][fdiv(564, power(fadd(1, power(fdiv(fmul(1664, root(Pr, 6)), 3162), 9, 2)), 2, 9))],
      fdiv(fmul(fmul(C2, C3), root(fdiv(fmul(laminar_f, reynolds), zstar), 3)), 1000),
      fdiv(fmul(C1, fdiv(fdiv(fmul(laminar_f, reynolds), fmul(8, fsqrt(Pi))), 10000)), 100)]

\* line 471
nusselt_turbulent_cell(turbulent_f, reynolds, Pr) ==
    fdiv(fmul(fdiv(fmul(fdiv(turbulent_f, 2), fsub(reynolds, 1000)), 100), Pr),
         fadd(100000, fmul(fmul(127, fsqrt(fdiv(turbulent_f, 2))),
                           fsub(power(Pr, 2, 3), 100))))

\* lines 462-472 at one cell: both families are evaluated, the masks combine them;
\* developed is the aspect-ratio term of line 465, the same scalar in every cell
ff_Nu_cell(developed, Lplus, reynolds, Pr, zstar) ==
    [laminar_f \in Any, turbulent_f \in Any |->
        [nusselt_laminar \in Any, nusselt_turbulent \in Any |->
            LET laminar == less_equal(reynolds, Re_switch)
                turbulent == greater(reynolds, Re_switch)
            IN  [frictionfactor |-> fadd(fmul(laminar, laminar_f), fmul(turbulent, turbulent_f)),
                 nusselt |-> fadd(fmul(laminar, nusselt_laminar),
                                  fmul(turbulent, nusselt_turbulent))]
        ][nusselt_laminar_cell(laminar_f, reynolds, Pr, zstar),
          nusselt_turbulent_cell(turbulent_f, reynolds, Pr)]
    ][laminar_f_cell(developed, Lplus, reynolds), turbulent_f_cell(reynolds)]

\* L+ = mu*L/(mdot/n) and z* = (L/dh)/(Re*Pr) at one cell, L the position along the flow
Lplus_cell(mu, L, mdot, n) == fdiv(fmul(fmul(mu, L), 100000), fdiv(mdot, n))
zstar_cell(L, dh, reynolds, Pr) == fdiv(fmul(fdiv(L, dh), 10000000), fmul(reynolds, Pr))

\* reactant and fuel passes: the position along the flow follows the column;
\* each cell gets <<L+, Re, Pr, z*>>
ff_Nu_rows(self, mu, L, mdot, dh, reynolds, Pr) ==
    array([rc \in Cells(self.rows, self.columns) |->
        <<Lplus_cell(mu[rc], L[rc[2] + 1], mdot, self.rows), reynolds[rc], Pr[rc],
          zstar_cell(L[rc[2] + 1], dh, reynolds[rc], Pr[rc])>>])

\* utility passes: the position follows the row
ff_Nu_columns(self, mu, L, mdot, dh, reynolds, Pr) ==
    array([rc \in Cells(self.rows, self.columns) |->
        <<Lplus_cell(mu[rc], L[rc[1] + 1], mdot, self.columns), reynolds[rc], Pr[rc],
          zstar_cell(L[rc[1] + 1], dh, reynolds[rc], Pr[rc])>>])

\* lines 425-452: Lplus, reynolds, Pr, zstar of the chosen pass; the utility
\* passes take z* with reactant_dh (lines 440, 447)
ff_Nu_inputs(self, fluid) ==
    IF fluid = "reactant2" THEN
        ff_Nu_rows(self, self.reactant2_mu, self.reactant_L, item(self.reactant, 1),
                   self.reactant_dh, self.reactant2_Re, self.reactant2_Pr)
    ELSE IF fluid = "reactant4" THEN
        ff_Nu_rows(self, self.reactant4_mu, self.reactant_L, item(self.reactant, 1),
                   self.reactant_dh, self.reactant4_Re, self.reactant4_Pr)
    ELSE IF fluid = "utility1" THEN
        ff_Nu_columns(self, self.utility1_mu, self.utility_L, item(self.utility, 1),
                      self.reactant_dh, self.utility1_Re, self.utility1_Pr)
    ELSE IF fluid = "utility5" THEN
        ff_Nu_columns(self, self.utility5_mu, self.utility_L, item(self.utility, 1),
                      self.reactant_dh, self.utility5_Re, self.utility5_Pr)
    ELSE
        ff_Nu_rows(self, self.fuel3_mu, self.fuel_L, item(self.fuel, 1),
                   self.fuel_dh, self.fuel3_Re, self.fuel3_Pr)

\* lines 455-472 are elementwise: cells with equal (L+, Re, Pr, z*) get equal
\* results, so each distinct tuple is evaluated once
ff_Nu_elementwise(self, inputs) ==
    [developed \in Any, a \in Any |-> [value \in Any |-> array([rc \in Cells(self.rows, self.columns) |-> value[a[rc]]])][array([x \in {a[rc] : rc \in Cells(self.rows, self.columns)} |-> ff_Nu_cell(developed, x[1], x[2], x[3], x[4])])]][fully_developed(self.aspectratio), inputs]

\* ff_Nu(fluid): returns (frictionfactor, nusselt); exc tells how the call ended
ff_Nu(instance, fluid) ==
    [self \in Any |->
        LET zeros == full(self.rows, self.columns, 0)
        failed(e) == [exc |-> e, frictionfactor |-> zeros, nusselt |-> zeros]
    IN  \* 'Incorrect fluid selected for friction factor!' is printed, then line 459
        \* reads the local name Pr, which was never bound
        IF fluid \notin {"reactant2", "reactant4", "utility1", "utility5", "fuel3"}
        THEN failed("UnboundLocalError")
        ELSE IF ~({fluid \o "_mu", fluid \o "_Re", fluid \o "_Pr"} \subseteq self.attrs)
        THEN failed("AttributeError")
        ELSE [g \in Any |->
        [exc |-> "none",
                 frictionfactor |-> array([rc \in Cells(self.rows, self.columns) |->
                                            g[rc].frictionfactor]),
                 nusselt |-> array([rc \in Cells(self.rows, self.columns) |-> g[rc].nusselt])]][ff_Nu_elementwise(self, ff_Nu_inputs(self, fluid))]][instance]

(***************************************************************************)
(* unwrap_T, convert_T_vector and the packing of the result                *)
(***************************************************************************)
\* the ten fields in the order of the flat vector
field_names == <<"utility1_T", "reactant2_T", "fuel3_T", "reactant4_T", "utility5_T",
                 "utilityPlate1_T", "reactantPlate2_T", "fuelPlate3_T",
                 "reactantPlate4_T", "utilityPlate5_T">>

\* the slices taken in the reverse field order
field_slice_reversed(Tvector, k, rows, columns) ==
    PySlice(Tvector, (9 - k) * rows * columns, (10 - k) * rows * columns)

\* Tvector[k*rows*columns:(k+1)*rows*columns]
field_slice(Tvector, k, rows, columns) ==
    PySlice(Tvector, k * rows * columns, (k + 1) * rows * columns)

\* the slices reshaped one after the other; reshape raises ValueError on the first
\* slice that does not hold rows*columns elements
split_fields(Tvector, rows, columns) ==
    [v \in Any |->
        IF \E k \in 0..9 : ~CanReshape(field_slice(v, k, rows, columns), rows, columns)
        THEN [exc |-> "ValueError", grids |-> << >>]
        ELSE [exc |-> "none",
              grids |-> array([k \in 1..10 |->
                            reshape(field_slice(v, k - 1, rows, columns), rows, columns)])]][Tvector]

unwrap_T(self, Tvector) == split_fields(Tvector, self.rows, self.columns)

\* module-level function: the grid shape comes from dims[2], dims[3]
convert_T_vector(T_vector, dims) == split_fields(T_vector, item(dims, 2), item(dims, 3))

\* np.concatenate([g.ravel() for g in grids])
concatenate(grids, rows, columns) ==
    [g \in Any |->
        ravel(g[1], rows, columns) \o ravel(g[2], rows, columns)
          \o ravel(g[3], rows, columns) \o ravel(g[4], rows, columns)
          \o ravel(g[5], rows, columns) \o ravel(g[6], rows, columns)
          \o ravel(g[7], rows, columns) \o ravel(g[8], rows, columns)
          \o ravel(g[9], rows, columns) \o ravel(g[10], rows, columns)][grids]

(***************************************************************************)
(* intraplate_cond and advective_transfer                                  *)
(***************************************************************************)
plate_names == [utility1 |-> "utilityPlate1_T", reactant2 |-> "reactantPlate2_T",
                fuel3 |-> "fuelPlate3_T", reactant4 |-> "reactantPlate4_T",
                utility5 |-> "utilityPlate5_T"]

\* second_difference whose edge lines add the two temperatures
second_difference_summed(temps, rows, columns, axis, delta) ==
    LET n == IF axis = 0 THEN rows ELSE columns
        along(rc) == IF axis = 0 THEN rc[1] ELSE rc[2]
        at(rc, i) == IF axis = 0 THEN temps[<<i, rc[2]>>] ELSE temps[<<rc[1], i>>]
    IN  array([rc \in Cells(rows, columns) |->
            IF along(rc) = 0
            THEN fdiv(fmul(fmul(2, fadd(at(rc, 1), at(rc, 0))), One), fpow(delta, 2))
            ELSE IF along(rc) = n - 1
            THEN fdiv(fmul(fmul(2, fadd(at(rc, n - 2), at(rc, n - 1))), One), fpow(delta, 2))
            ELSE 0])

\* second_difference without the two edge lines: the periodic stencil np.roll gives
second_difference_periodic(temps, rows, columns, axis, delta) ==
    [fwd \in Any, rev \in Any |->
        array([rc \in Cells(rows, columns) |->
            fdiv(fmul(fadd(fsub(rev[rc], fmul(2, temps[rc])), fwd[rc]), One), fpow(delta, 2))])][
        roll_fwd(temps, rows, columns, axis), roll_rev(temps, rows, columns, axis)]

\* second difference along one axis with the first and last line replaced by the
\* insulated-edge form (lines 753-755 and 757-759); rates are carried in thousandths
second_difference(temps, rows, columns, axis, delta) ==
    LET n == IF axis = 0 THEN rows ELSE columns
        along(rc) == IF axis = 0 THEN rc[1] ELSE rc[2]
        at(rc, i) == IF axis = 0 THEN temps[<<i, rc[2]>>] ELSE temps[<<rc[1], i>>]
    IN  [fwd \in Any, rev \in Any |->
        [interior \in Any |->
        [first \in Any |->
        array([rc \in Cells(rows, columns) |->
            IF along(rc) = n - 1
            THEN fdiv(fmul(fmul(2, fsub(at(rc, n - 2), at(rc, n - 1))), One), fpow(delta, 2))
            ELSE first[rc]])][array([rc \in Cells(rows, columns) |-> IF along(rc) = 0 THEN fdiv(fmul(fmul(2, fsub(at(rc, 1), at(rc, 0))), One), fpow(delta, 2)) ELSE interior[rc]])]][array([rc \in Cells(rows, columns) |-> fdiv(fmul(fadd(fsub(rev[rc], fmul(2, temps[rc])), fwd[rc]), One), fpow(delta, 2))])]][roll_fwd(temps, rows, columns, axis), roll_rev(temps, rows, columns, axis)]

\* intraplate_cond(plate): [exc, dTdtNet]
intraplate_cond(instance, plate) ==
    [self \in Any |->
        LET zeros == full(self.rows, self.columns, 0)
        failed(e) == [exc |-> e, dTdtNet |-> zeros]
    IN  \* 'Incorrect plate selected for conduction terms!!' is printed, then line 748
        \* reads the local name temps, which was never bound
        IF plate \notin DOMAIN plate_names THEN failed("UnboundLocalError")
        ELSE IF plate_names[plate] \notin self.attrs THEN failed("AttributeError")
        \* temps[:, 1] and temps[1, :] need a second column and a second row
        ELSE IF self.columns < 2 \/ self.rows < 2 THEN failed("IndexError")
        ELSE LET temps == self[plate_names[plate]]
             IN  [temp_x_dir \in Any, temp_z_dir \in Any |->
        [exc |-> "none",
                     dTdtNet |-> array([rc \in Cells(self.rows, self.columns) |->
                                    fmul(fadd(temp_x_dir[rc], temp_z_dir[rc]),
                                         fdiv(self.metalk, fmul(self.metalrho, self.metalcp)))])]][second_difference(temps, self.rows, self.columns, 1, self.deltax), second_difference(temps, self.rows, self.columns, 0, self.deltaz)]][instance]

fluid_names == [utility1 |-> "utility1_T", reactant2 |-> "reactant2_T", fuel3 |-> "fuel3_T",
                reactant4 |-> "reactant4_T", utility5 |-> "utility5_T"]

\* the axis np.roll shifts along: the reactant and fuel passes run along the columns,
\* the utility passes along the rows
roll_dir(fluid) == IF fluid \in {"utility1", "utility5"} THEN 0 ELSE 1

\* inlet_T that hands every pass the reactant inlet temperature
inlet_T_reactant(self, fluid) == item(self.reactant, 2)

\* the inlet temperature of the stream the pass belongs to
inlet_T(self, fluid) ==
    IF fluid \in {"reactant2", "reactant4"} THEN item(self.reactant, 2)
    ELSE IF fluid = "fuel3" THEN item(self.fuel, 2)
    ELSE item(self.utility, 2)

\* upstream_difference without the boundary condition: the inlet line keeps the
\* value np.roll wrapped around from the outlet line
upstream_difference_wrapped(temps, rows, columns, axis, T0) ==
    [offset_T \in Any |->
        array([rc \in Cells(rows, columns) |-> fsub(offset_T[rc], temps[rc])])][
        roll_fwd(temps, rows, columns, axis)]

\* lines 806-814: upstream difference, the inlet line taking T0 as its upstream value
upstream_difference(temps, rows, columns, axis, T0) ==
    [offset_T \in Any |->
        array([rc \in Cells(rows, columns) |->
            IF (axis = 0 /\ rc[1] = 0) \/ (axis = 1 /\ rc[2] = 0)
            THEN fsub(T0, temps[rc])
            ELSE fsub(offset_T[rc], temps[rc])])][roll_fwd(temps, rows, columns, axis)]

\* advective_transfer that carries on with the reactant2 grid when the fluid is
\* none of the five passes
advective_transfer_lenient(instance, fluid) ==
    [self \in Any, f \in Any |->
        IF fluid_names[f] \notin self.attrs
        THEN [exc |-> "AttributeError", deltaT |-> full(self.rows, self.columns, 0)]
        ELSE [exc |-> "none",
              deltaT |-> upstream_difference(self[fluid_names[f]], self.rows, self.columns,
                                             roll_dir(f), inlet_T(self, f))]][
        instance, IF fluid \in DOMAIN fluid_names THEN fluid ELSE "reactant2"]

\* advective_transfer(fluid): [exc, deltaT]
advective_transfer(instance, fluid) ==
    [self \in Any |->
        LET zeros == full(self.rows, self.columns, 0)
    IN  \* 'Incorrect fluid selected for advective term!!' is printed, then line 806
        \* reads the local name temps, which was never bound
        IF fluid \notin DOMAIN fluid_names THEN [exc |-> "UnboundLocalError", deltaT |-> zeros]
        ELSE IF fluid_names[fluid] \notin self.attrs THEN [exc |-> "AttributeError", deltaT |-> zeros]
        ELSE [exc |-> "none",
              deltaT |-> upstream_difference(self[fluid_names[fluid]], self.rows, self.columns,
                                             roll_dir(fluid), inlet_T(self, fluid))]][instance]

(***************************************************************************)
(* Element-wise numpy arithmetic on grids                                  *)
(***************************************************************************)
gadd(A, B) ==
    [a \in Any, b \in Any |-> array([rc \in DOMAIN a |-> fadd(a[rc], b[rc])])][A, B]
gsub(A, B) ==
    [a \in Any, b \in Any |-> array([rc \in DOMAIN a |-> fsub(a[rc], b[rc])])][A, B]
gmul(A, B) ==
    [a \in Any, b \in Any |-> array([rc \in DOMAIN a |-> fmul(a[rc], b[rc])])][A, B]
gdiv(A, B) ==
    [a \in Any, b \in Any |-> array([rc \in DOMAIN a |-> fdiv(a[rc], b[rc])])][A, B]
\* scalar * grid, grid / scalar, scalar / grid
smul(x, A) ==
    [y \in Any, a \in Any |-> array([rc \in DOMAIN a |-> fmul(y, a[rc])])][x, A]
sdiv(A, x) ==
    [a \in Any, y \in Any |-> array([rc \in DOMAIN a |-> fdiv(a[rc], y)])][A, x]
rdiv(x, A) ==
    [y \in Any, a \in Any |-> array([rc \in DOMAIN a |-> fdiv(y, a[rc])])][x, A]

(***************************************************************************)
(* update_pressures                                                        *)
(***************************************************************************)
\* 2*f*delta/dh*u**2*rho at one cell; f is carried in units of 1e-4 and the
\* velocity enters in thousands
deltaP_cell(f, delta, dh, u, rho) ==
    fdiv(fmul(fmul(fdiv(fmul(fmul(2, f), delta), dh), fpow(fdiv(u, 1000), 2)), rho), 20000)

deltaP_grid(self, f, delta, dh, u, rho) ==
    array([rc \in Cells(self.rows, self.columns) |-> deltaP_cell(f[rc], delta, dh, u[rc], rho[rc])])

\* P.mean() == P[0, 0]
mean_is_first(P, rows, columns) ==
    [v \in Any |->
        IF \A i \in 1..Len(v) : IsFinite(v[i])
        THEN vsum(v) = rows * columns * v[1]
        ELSE equal(vsum(v), v[1]) = 1][ravel(P, rows, columns)]

\* march_columns with the drop added instead of subtracted
RECURSIVE march_columns_rising(_, _, _)
march_columns_rising(P0, deltaP, rc) ==
    IF rc[2] = 0 THEN fadd(P0, deltaP[rc])
    ELSE fadd(march_columns_rising(P0, deltaP, <<rc[1], rc[2] - 1>>), deltaP[rc])

\* cold start along the columns (lines 844-846, 849-852): P[:, 0] = P0 - deltaP[:, 0],
\* then P[:, i] = P[:, i-1] - deltaP[:, i]
RECURSIVE march_columns(_, _, _)
march_columns(P0, deltaP, rc) ==
    IF rc[2] = 0 THEN fsub(P0, deltaP[rc])
    ELSE fsub(march_columns(P0, deltaP, <<rc[1], rc[2] - 1>>), deltaP[rc])

\* march_rows without the accumulation: every row one loss below the inlet
march_rows_from_inlet(P0, deltaP, rc) == fsub(P0, deltaP[rc])

\* cold start along the rows (lines 843, 847, 854-856)
RECURSIVE march_rows(_, _, _)
march_rows(P0, deltaP, rc) ==
    IF rc[1] = 0 THEN fsub(P0, deltaP[rc])
    ELSE fsub(march_rows(P0, deltaP, <<rc[1] - 1, rc[2]>>), deltaP[rc])

cold_columns(self, P0, deltaP) ==
    [drop \in Any |-> array([rc \in Cells(self.rows, self.columns) |-> march_columns(P0, drop, rc)])][deltaP]
cold_rows(self, P0, deltaP) ==
    [drop \in Any |-> array([rc \in Cells(self.rows, self.columns) |-> march_rows(P0, drop, rc)])][deltaP]

\* the assignments P[:, 0] = x (a vector of `columns` values) and P[0, :] = y (a
\* vector of `rows` values) of the warm branch broadcast only if the lengths
\* agree or the assigned vector has one element
can_assign(target_len, source_len) == source_len = target_len \/ source_len = 1

\* np.roll(P, 1, 0) - deltaP
warm_rows_rolled(self, P, deltaP) == gsub(roll_fwd(P, self.rows, self.columns, 0), deltaP)
\* then P[:, 0] = P0 - deltaP[0, :] (lines 861, 869)
warm_rows(self, P, P0, deltaP) ==
    [drop \in Any |->
        [rolled \in Any |->
        array([rc \in Cells(self.rows, self.columns) |->
            IF rc[2] = 0
            THEN fsub(P0, drop[<<0, IF self.columns = 1 THEN 0 ELSE rc[1]>>])
            ELSE rolled[rc]])][warm_rows_rolled(self, P, drop)]][deltaP]

\* np.roll(P, 1, 1) - deltaP
warm_columns_rolled(self, P, deltaP) == gsub(roll_fwd(P, self.rows, self.columns, 1), deltaP)
\* then P[0, :] = P0 - deltaP[:, 0] (lines 863, 865, 867)
warm_columns(self, P, P0, deltaP) ==
    [drop \in Any |->
        [rolled \in Any |->
        array([rc \in Cells(self.rows, self.columns) |->
            IF rc[1] = 0
            THEN fsub(P0, drop[<<IF self.rows = 1 THEN 0 ELSE rc[2], 0>>])
            ELSE rolled[rc]])][warm_columns_rolled(self, P, drop)]][deltaP]

\* update_pressures that completes whatever the instance holds and changes nothing
update_pressures_lenient(instance) == [instance EXCEPT !.exc = "none"]

update_pressures(instance) ==
    [self \in Any |->
        LET needed == {"utility1_f", "utility1_u", "utility1_rho", "reactant2_f", "reactant2_u",
                   "reactant2_rho", "fuel3_f", "fuel3_u", "fuel3_rho", "reactant4_f",
                   "reactant4_u", "reactant4_rho", "utility5_f", "utility5_u", "utility5_rho"}
        deltaP_utility1 == deltaP_grid(self, self.utility1_f, self.deltaz, self.utility_dh,
                                       self.utility1_u, self.utility1_rho)
        deltaP_reactant2 == deltaP_grid(self, self.reactant2_f, self.deltax, self.reactant_dh,
                                        self.reactant2_u, self.reactant2_rho)
        deltaP_fuel3 == deltaP_grid(self, self.fuel3_f, self.deltax, self.fuel_dh,
                                    self.fuel3_u, self.fuel3_rho)
        deltaP_reactant4 == deltaP_grid(self, self.reactant4_f, self.deltax, self.reactant_dh,
                                        self.reactant4_u, self.reactant4_rho)
        deltaP_utility5 == deltaP_grid(self, self.utility5_f, self.deltaz, self.utility_dh,
                                       self.utility5_u, self.utility5_rho)
        s0 == [self EXCEPT !.exc = "none"]
        \* the first warm assignment that cannot broadcast raises ValueError; the
        \* rolled field assigned on the line before it stays
        w1 == [s0 EXCEPT !.utility1_P = warm_rows_rolled(self, self.utility1_P, deltaP_utility1),
                         !.exc = "ValueError"]
        w2 == [s0 EXCEPT !.utility1_P = warm_rows(self, self.utility1_P,
                                                  item(self.utility, 3), deltaP_utility1),
                         !.reactant2_P = warm_columns_rolled(self, self.reactant2_P, deltaP_reactant2),
                         !.exc = "ValueError"]
    IN  IF ~(needed \subseteq self.attrs) THEN [self EXCEPT !.exc = "AttributeError"]
        ELSE IF mean_is_first(self.reactant2_P, self.rows, self.columns) THEN
            [s0 EXCEPT
                !.utility1_P = cold_rows(self, item(self.utility, 3), deltaP_utility1),
                !.reactant2_P = cold_columns(self, item(self.reactant, 3), deltaP_reactant2),
                !.fuel3_P = cold_columns(self, item(self.fuel, 3), deltaP_fuel3),
                !.reactant4_P = cold_columns(self, item(self.reactant, 3), deltaP_reactant4),
                !.utility5_P = cold_rows(self, item(self.utility, 3), deltaP_utility5)]
        ELSE IF ~can_assign(self.rows, self.columns) THEN w1
        ELSE IF ~can_assign(self.columns, self.rows) THEN w2
        ELSE
            [s0 EXCEPT
                !.utility1_P = warm_rows(self, self.utility1_P, item(self.utility, 3), deltaP_utility1),
                !.reactant2_P = warm_columns(self, self.reactant2_P, item(self.reactant, 3),
                                             deltaP_reactant2),
                \* line 865 takes the inlet pressure of the reactant stream
                !.fuel3_P = warm_columns(self, self.fuel3_P, item(self.reactant, 3), deltaP_fuel3),
                !.reactant4_P = warm_columns(self, self.reactant4_P, item(self.reactant, 3),
                                             deltaP_reactant4),
                !.utility5_P = warm_rows(self, self.utility5_P, item(self.utility, 3), deltaP_utility5)]][instance]

(***************************************************************************)
(* transient_solver                                                        *)
(***************************************************************************)
\* lines 911-915: the five property updates in order; the first exception ends the
\* call with the attributes assigned so far
RECURSIVE properties_chain(_, _)
properties_chain(instance, fluids) ==
    [self \in Any |->
        IF fluids = << >> \/ self.exc # "none" THEN self
    ELSE LET fluid == Head(fluids)
         IN  [p \in Any |->
        IF p.self.exc # "none" THEN p.self
             ELSE properties_chain(
                    [p.self EXCEPT ![fluid \o "_mu"] = p.mu, ![fluid \o "_k"] = p.k,
                                   !.attrs = @ \cup {fluid \o "_mu", fluid \o "_k"}],
                    Tail(fluids))][properties(self, fluid)]][instance]

\* lines 938-942: friction factor and Nusselt number of the five passes
RECURSIVE ff_Nu_chain(_, _)
ff_Nu_chain(instance, fluids) ==
    [self \in Any |->
        IF fluids = << >> \/ self.exc # "none" THEN self
    ELSE LET fluid == Head(fluids)
         IN  [r \in Any |->
        IF r.exc # "none" THEN [self EXCEPT !.exc = r.exc]
             ELSE ff_Nu_chain(
                    [self EXCEPT ![fluid \o "_f"] = r.frictionfactor, ![fluid \o "_Nu"] = r.nusselt,
                                 !.attrs = @ \cup {fluid \o "_f", fluid \o "_Nu"}],
                    Tail(fluids))][ff_Nu(self, fluid)]][instance]

passes == <<"utility1", "reactant2", "fuel3", "reactant4", "utility5">>

\* lines 918-935 and 945-949: velocity, Prandtl, Reynolds, heat transfer coefficient
bulk_velocity(mdot, rho, n, cs) == rdiv(mdot, smul(cs, smul(n, rho)))
prandtl(mu, cp, k) == gdiv(gmul(mu, cp), k)
reynolds_number(rho, u, dh, mu) == gdiv(smul(dh, gmul(rho, u)), mu)
heat_transfer_coefficient(Nu, k, dh) == sdiv(gmul(Nu, k), dh)

\* Q/(rho*Vcell*cp), in thousandths
fluid_rate(Q, rho, Vcell, cp) == gdiv(Q, sdiv(gmul(smul(Vcell, rho), cp), One))

\* plate_rate with the sign of the heat flow lost
plate_rate_negated(self, Q, Vcell) ==
    sdiv(Q, fdiv(fmul(fmul(fneg(self.metalrho), Vcell), self.metalcp), One))

\* Q/(metalrho*Vcell*metalcp), in thousandths
plate_rate(self, Q, Vcell) ==
    sdiv(Q, fdiv(fmul(fmul(self.metalrho, Vcell), self.metalcp), One))
\* u*advective_transfer(fluid)/delta, in thousandths
advective_rate(u, deltaT, delta) == sdiv(smul(One, gmul(u, deltaT)), delta)

\* lines 918-949 on the instance
flow_numbers(instance) ==
    [self \in Any |->
        [s1 \in Any |->
        [s3 \in Any |->
        IF s3.exc # "none" THEN s3
        ELSE [s3 EXCEPT
            !.utility1_h = heat_transfer_coefficient(s3.utility1_Nu, s3.utility1_k, s3.utility_dh),
            !.reactant2_h = heat_transfer_coefficient(s3.reactant2_Nu, s3.reactant2_k, s3.reactant_dh),
            !.fuel3_h = heat_transfer_coefficient(s3.fuel3_Nu, s3.fuel3_k, s3.fuel_dh),
            !.reactant4_h = heat_transfer_coefficient(s3.reactant4_Nu, s3.reactant4_k, s3.reactant_dh),
            !.utility5_h = heat_transfer_coefficient(s3.utility5_Nu, s3.utility5_k, s3.utility_dh),
            !.attrs = @ \cup {"utility1_h", "reactant2_h", "fuel3_h", "reactant4_h", "utility5_h"}]][ff_Nu_chain([s1 EXCEPT !.utility1_Re = reynolds_number(s1.utility1_rho, s1.utility1_u, s1.utility_dh, s1.utility1_mu), !.reactant2_Re = reynolds_number(s1.reactant2_rho, s1.reactant2_u, s1.reactant_dh, s1.reactant2_mu), !.fuel3_Re = reynolds_number(s1.fuel3_rho, s1.fuel3_u, s1.fuel_dh, s1.fuel3_mu), !.reactant4_Re = reynolds_number(s1.reactant4_rho, s1.reactant4_u, s1.reactant_dh, s1.reactant4_mu), !.utility5_Re = reynolds_number(s1.utility5_rho, s1.utility5_u, s1.utility_dh, s1.utility5_mu)], passes)]][[self EXCEPT !.utility1_u = bulk_velocity(item(self.utility, 1), self.utility1_rho, item(self.dimensions, 3), self.utility_cs), !.reactant2_u = bulk_velocity(item(self.reactant, 1), self.reactant2_rho, item(self.dimensions, 2), self.reactant_cs), !.fuel3_u = bulk_velocity(item(self.fuel, 1), self.fuel3_rho, item(self.dimensions, 2), self.fuel_cs), !.reactant4_u = bulk_velocity(item(self.reactant, 1), self.reactant4_rho, item(self.dimensions, 2), self.reactant_cs), !.utility5_u = bulk_velocity(item(self.utility, 1), self.utility5_rho, item(self.dimensions, 3), self.utility_cs), !.utility1_Pr = prandtl(self.utility1_mu, self.utility1_cp, self.utility1_k), !.reactant2_Pr = prandtl(self.reactant2_mu, self.reactant2_cp, self.reactant2_k), !.fuel3_Pr = prandtl(self.fuel3_mu, self.fuel3_cp, self.fuel3_k), !.reactant4_Pr = prandtl(self.reactant4_mu, self.reactant4_cp, self.reactant4_k), !.utility5_Pr = prandtl(self.utility5_mu, self.utility5_cp, self.utility5_k), !.attrs = @ \cup {"utility1_u", "reactant2_u", "fuel3_u", "reactant4_u", "utility5_u", "utility1_Pr", "reactant2_Pr", "fuel3_Pr", "reactant4_Pr", "utility5_Pr", "utility1_Re", "reactant2_Re", "fuel3_Re", "reactant4_Re", "utility5_Re"}]]][instance]

\* lines 955-972: heat exchanged between the fluids and the plates, then
\* conduction between the plates; the contact areas are those the source names
heat_flows(instance) ==
    [self \in Any |->
        LET T1 == self.utility1_T       T2 == self.reactant2_T     T3 == self.fuel3_T
        T4 == self.reactant4_T      T5 == self.utility5_T
        TP1 == self.utilityPlate1_T TP2 == self.reactantPlate2_T
        TP3 == self.fuelPlate3_T    TP4 == self.reactantPlate4_T
        TP5 == self.utilityPlate5_T
        h1 == self.utility1_h       h2 == self.reactant2_h     h3 == self.fuel3_h
        h4 == self.reactant4_h      h5 == self.utility5_h
        A1 == self.hx_area_1        A2 == self.hx_area_2       A3 == self.hx_area_3
        A4 == self.hx_area_4        A5 == self.hx_area_5       A6 == self.hx_area_6
        k == self.metalk
    IN  [self EXCEPT
          !.Q_utility1_fluid = gmul(h1, gadd(smul(A1, gsub(TP5, T1)), smul(A3, gsub(TP1, T1)))),
          !.Q_reactant2_fluid = gmul(h2, gadd(smul(A4, gsub(TP1, T2)), smul(A6, gsub(TP2, T2)))),
          !.Q_fuel3_fluid = gmul(h3, gadd(smul(A4, gsub(TP2, T3)), smul(A6, gsub(TP3, T3)))),
          !.Q_reactant4_fluid = gmul(h4, gadd(smul(A4, gsub(TP3, T4)), smul(A6, gsub(TP4, T4)))),
          !.Q_utility5_fluid = gmul(h5, gadd(smul(A1, gsub(TP4, T5)), smul(A5, gsub(TP5, T5)))),
          !.Q_utilityPlate1 =
              gadd(gadd(gmul(smul(A3, h1), gsub(T1, TP1)), gmul(smul(A4, h2), gsub(T2, TP1))),
                   smul(k, gadd(smul(A2, gsub(TP5, TP1)), smul(A5, gsub(TP2, TP1))))),
          !.Q_reactantPlate2 =
              gadd(gadd(gmul(smul(A6, h2), gsub(T2, TP2)), gmul(smul(A4, h3), gsub(T3, TP2))),
                   smul(fmul(k, A5), gsub(gadd(TP3, TP1), smul(2, TP2)))),
          !.Q_fuelPlate3 =
              gadd(gadd(gmul(smul(A6, h3), gsub(T3, TP3)), gmul(smul(A4, h4), gsub(T4, TP3))),
                   smul(fmul(k, A5), gsub(gadd(TP2, TP4), smul(2, TP3)))),
          !.Q_reactantPlate4 =
              gadd(gadd(gmul(smul(A6, h4), gsub(T4, TP4)), gmul(smul(A1, h5), gsub(T5, TP4))),
                   smul(k, gadd(smul(A5, gsub(TP3, TP4)), smul(A2, gsub(TP5, TP4))))),
          !.Q_utilityPlate5 =
              gadd(gadd(gmul(smul(A1, h5), gsub(T5, TP5)), gmul(smul(A1, h1), gsub(T1, TP5))),
                   smul(k, smul(A5, gsub(gadd(TP4, TP1), smul(2, TP5))))),
          !.attrs = @ \cup {"Q_utility1_fluid", "Q_reactant2_fluid", "Q_fuel3_fluid",
                            "Q_reactant4_fluid", "Q_utility5_fluid", "Q_utilityPlate1",
                            "Q_reactantPlate2", "Q_fuelPlate3", "Q_reactantPlate4",
                            "Q_utilityPlate5"}]][instance]

\* lines 975-1004: the ten rate grids in the order of the flat vector; an
\* exception of intraplate_cond ends the call
rates(instance) ==
    [self \in Any |->
        LET adv(fluid) == advective_transfer(self, fluid).deltaT
        cond(plate) == intraplate_cond(self, plate)
    IN  IF cond("utility1").exc # "none" THEN [exc |-> cond("utility1").exc, grids |-> << >>]
        ELSE [exc |-> "none", grids |-> <<
            gadd(fluid_rate(self.Q_utility1_fluid, self.utility1_rho, self.utility_Vcell, self.utility1_cp),
                 advective_rate(self.utility1_u, adv("utility1"), self.deltaz)),
            gadd(fluid_rate(self.Q_reactant2_fluid, self.reactant2_rho, self.reactant_Vcell, self.reactant2_cp),
                 advective_rate(self.reactant2_u, adv("reactant2"), self.deltax)),
            gadd(fluid_rate(self.Q_fuel3_fluid, self.fuel3_rho, self.fuel_Vcell, self.fuel3_cp),
                 advective_rate(self.fuel3_u, adv("fuel3"), self.deltax)),
            gadd(fluid_rate(self.Q_reactant4_fluid, self.reactant4_rho, self.reactant_Vcell, self.reactant4_cp),
                 advective_rate(self.reactant4_u, adv("reactant4"), self.deltax)),
            gadd(fluid_rate(self.Q_utility5_fluid, self.utility5_rho, self.utility_Vcell, self.utility5_cp),
                 advective_rate(self.utility5_u, adv("utility5"), self.deltaz)),
            gadd(plate_rate(self, self.Q_utilityPlate1, self.utilityPlate_Vcell), cond("utility1").dTdtNet),
            gadd(plate_rate(self, self.Q_reactantPlate2, self.reactantPlate_Vcell), cond("reactant2").dTdtNet),
            gadd(plate_rate(self, self.Q_fuelPlate3, self.fuelPlate_Vcell), cond("fuel3").dTdtNet),
            gadd(plate_rate(self, self.Q_reactantPlate4, self.reactantPlate_Vcell), cond("reactant4").dTdtNet),
            gadd(plate_rate(self, self.Q_utilityPlate5, self.utilityPlate_Vcell), cond("utility5").dTdtNet) >>]][instance]

\* store_T that keeps the temperature attributes once they exist
store_T_kept(self, grids) ==
    IF T_attrs \subseteq self.attrs THEN self
    ELSE [self EXCEPT !.utility1_T = grids[1], !.reactant2_T = grids[2],
                      !.fuel3_T = grids[3], !.reactant4_T = grids[4],
                      !.utility5_T = grids[5], !.utilityPlate1_T = grids[6],
                      !.reactantPlate2_T = grids[7], !.fuelPlate3_T = grids[8],
                      !.reactantPlate4_T = grids[9], !.utilityPlate5_T = grids[10],
                      !.attrs = @ \cup T_attrs]

\* lines 898-900: the ten grids of unwrap_T become the temperature attributes
store_T(self, grids) ==
    [self EXCEPT !.utility1_T = grids[1], !.reactant2_T = grids[2],
                 !.fuel3_T = grids[3], !.reactant4_T = grids[4],
                 !.utility5_T = grids[5], !.utilityPlate1_T = grids[6],
                 !.reactantPlate2_T = grids[7], !.fuelPlate3_T = grids[8],
                 !.reactantPlate4_T = grids[9], !.utilityPlate5_T = grids[10],
                 !.attrs = @ \cup T_attrs]

\* transient_solver(t, T): the instance after the call, how the call ended and the
\* vector it returned; t is not read
right_hand_side(instance, T) ==
    [self \in Any |->
        [u \in Any |->
        LET s0 == [self EXCEPT !.exc = "none"]
        failed(s) == [self |-> s, exc |-> s.exc, dTdt |-> << >>]
    IN  IF u.exc # "none" THEN failed([s0 EXCEPT !.exc = u.exc])
        ELSE [s2 \in Any |->
        IF s2.exc # "none" THEN failed(s2)
        ELSE [s3 \in Any |->
        IF s3.exc # "none" THEN failed(s3)
        ELSE [s4 \in Any |->
        IF s4.exc # "none" THEN failed(s4)
        ELSE [s5 \in Any |->
        [r \in Any |->
        IF r.exc # "none" THEN failed([s5 EXCEPT !.exc = r.exc])
        ELSE [self |-> s5, exc |-> "none",
              dTdt |-> concatenate(r.grids, self.rows, self.columns)]][rates(s5)]][heat_flows(s4)]][flow_numbers(s3)]][properties_chain(s2, passes)]][mol_frac_and_cp(store_T(s0, u.grids))]][unwrap_T(self, T)]][instance]

\* transient_solver with the call of line 1013 not commented out
transient_solver_updating_pressures(instance, T) ==
    [r \in Any |-> [r EXCEPT !.self = [update_pressures(r.self) EXCEPT !.exc = r.exc]]][
        right_hand_side(instance, T)]

\* transient_solver(t, T)
transient_solver(instance, T) == right_hand_side(instance, T)

\* steady_solver(initialTemps) is transient_solver(0, initialTemps)
steady_solver(self, initialTemps) == transient_solver(self, initialTemps)

\* update_reactant, update_fuel, update_utility: the stream is replaced, then
\* mol_frac_and_cp runs
update_reactant(self, reactant) == mol_frac_and_cp([self EXCEPT !.reactant = reactant, !.exc = "none"])
update_fuel(self, fuel) == mol_frac_and_cp([self EXCEPT !.fuel = fuel, !.exc = "none"])
update_utility(self, utility) == mol_frac_and_cp([self EXCEPT !.utility = utility, !.exc = "none"])

(***************************************************************************)
(* The driver: streams, geometry and the vectors handed to the solver      *)
(***************************************************************************)
\* grid shapes explored
MaxRows == 2
MaxCols == 3
\* how many state vectors the integrator hands to transient_solver
NumT == 2
\* how many times the driver calls update_pressures
MaxPressureUpdates == 2

\* lines 1047-1049: [composition, mass flow, inlet temperature, inlet pressure];
\* mass fractions in thousandths, temperatures 900 K, 700 K, 500 K in units of 200 K
reactant_inlet == << << <<"CO2", One>> >>, 3000000, 4, 10000 >>
utility_inlet == << << <<"CO2", One>> >>, 600000, 3, 10000 >>
fuel_inlet == << << <<"CH4", One>> >>, 600000, 2, 9000 >>
\* line 1050: equal channel diameters, plate thickness, plate spacing; the grid
\* shape is the explored one
dimensions(rows, columns) == <<3, 3, rows, columns, 2, 4>>

\* np.ones((rows, columns)).ravel() * x
ones_times(x, n) == array([i \in 1..n |-> x])

\* lines 1054-1063: every fluid and plate field at the inlet temperature of its stream
initial_temps(self) ==
    LET n == self.rows * self.columns
        r == ones_times(item(self.reactant, 2), n)
        u == ones_times(item(self.utility, 2), n)
        f == ones_times(item(self.fuel, 2), n)
    IN  u \o r \o f \o r \o u \o u \o r \o f \o r \o u

\* a later vector of the integrator: cell i of field k moved to x
perturbed(v, n, k, i, x) == [v EXCEPT ![k * n + (i % n) + 1] = x]

\* the j-th vector handed to transient_solver: the first is initial_temps, the
\* others move a reactant cell above 1000 K, cool a utility cell and warm a plate cell
Tvector(self, j) ==
    LET n == self.rows * self.columns
    IN  IF j = 1 THEN initial_temps(self)
        ELSE perturbed(perturbed(perturbed(initial_temps(self), n, 1, j - 1, T_switch + 1),
                                 n, 4, j, 2 + (j % 2) * 4),
                       n, 8, j + 1, T_switch)

(***************************************************************************)
(* State                                                                   *)
(***************************************************************************)
VARIABLES
    self,     \* the crossflow_PCHE instance
    ret,      \* the last call on it: its name, its argument, how it ended, what it returned
    memo,     \* per vector, what transient_solver first returned for it since the pressure fields last changed
    npress,   \* calls of update_pressures so far
    op,       \* the operation applied to a drawn input, "none" before it ran
    arg,      \* the drawn input
    res       \* what the operation returned

vars == <<self, ret, memo, npress, op, arg, res>>

no_call == [name |-> "__init__", j |-> 0, cold |-> FALSE, exc |-> "none", dTdt |-> << >>]
\* seq: 0 the vector was not evaluated yet, 1 it was, 2 another vector was
\* evaluated after it, 3 it was evaluated again after another vector
no_memo == [j \in 1..NumT |-> [seq |-> 0, exc |-> "none", dTdt |-> << >>]]
idle == "idle"

Init ==
    /\ \E rows \in 1..MaxRows, columns \in 1..MaxCols :
          self = __init__(reactant_inlet, utility_inlet, fuel_inlet, dimensions(rows, columns))
    /\ ret = no_call
    /\ memo = no_memo
    /\ npress = 0
    /\ op = idle /\ arg = idle /\ res = idle

\* the memo after the j-th vector was evaluated with result r
remember(m, j, r) ==
    [i \in 1..NumT |->
        IF i = j
        THEN IF m[i].seq = 0 THEN [seq |-> 1, exc |-> r.exc, dTdt |-> r.dTdt]
             ELSE IF m[i].seq = 2 THEN [m[i] EXCEPT !.seq = 3]
             ELSE m[i]
        ELSE IF m[i].seq = 1 THEN [m[i] EXCEPT !.seq = 2]
             ELSE m[i]]

\* solve_ivp evaluates the right-hand side at the j-th vector
TransientSolver(j) ==
    \E r \in {transient_solver(self, Tvector(self, j))} :
        /\ self' = r.self
        /\ ret' = [name |-> "transient_solver", j |-> j, cold |-> FALSE, exc |-> r.exc, dTdt |-> r.dTdt]
        /\ memo' = remember(memo, j, r)
        /\ UNCHANGED <<npress, op, arg, res>>

\* line 1071
UpdatePressures ==
    \E s \in {update_pressures(self)} :
        /\ npress < MaxPressureUpdates
        /\ self' = s
        /\ ret' = [name |-> "update_pressures", j |-> 0,
                   cold |-> mean_is_first(self.reactant2_P, self.rows, self.columns),
                   exc |-> s.exc, dTdt |-> << >>]
        /\ memo' = no_memo
        /\ npress' = npress + 1
        /\ UNCHANGED <<op, arg, res>>

Next ==
    \/ \E j \in 1..NumT : TransientSolver(j)
    \/ UpdatePressures

Spec == Init /\ [][Next]_vars

(***************************************************************************)
(* The module-level driver (lines 1066-1071): solve_ivp, then ten times    *)
(* solve_ivp followed by update_pressures; an exception ends the program   *)
(***************************************************************************)
\* grid shapes the driver is run on
DriverRows == 3
DriverCols == 3

\* line 1052: the exchanger is built from the three streams and the dimensions
InitDriver ==
    /\ \E rows \in 1..DriverRows, columns \in 1..DriverCols :
          self = __init__(reactant_inlet, utility_inlet, fuel_inlet, dimensions(rows, columns))
    /\ ret = no_call
    /\ memo = no_memo
    /\ npress = 0
    /\ op = idle /\ arg = idle /\ res = idle

\* solve_ivp (lines 1067, 1070) evaluates the right-hand side at one more vector
DriverSolve(j) ==
    /\ ret.exc = "none"
    /\ TransientSolver(j)

\* line 1071: solve_ivp has returned, having called transient_solver at least once
DriverUpdate ==
    /\ ret.name = "transient_solver" /\ ret.exc = "none"
    /\ UpdatePressures

NextDriver ==
    \/ \E j \in 1..NumT : DriverSolve(j)
    \/ DriverUpdate

SpecDriver == InitDriver /\ [][NextDriver]_vars

(***************************************************************************)
(* The operations one at a time: an input is drawn, the operation is       *)
(* applied to it once                                                      *)
(***************************************************************************)
\* grid shapes the single operations are applied to
OpsRows == 3
OpsCols == 3

\* Reynolds numbers on both sides of the threshold, at it, and outside the
\* physical range
ReValues == {0 - 1, 0, 1000, Re_switch, Re_switch + 1, 5000}
\* compositions: pure, binary, ternary, all-zero, empty, and two that name a
\* species the property table does not hold
Compositions ==
    << << <<"CO2", 1000>> >>,
       << <<"CO2", 500>>, <<"CH4", 500>> >>,
       << <<"CH4", 300>>, <<"H2O", 700>> >>,
       << <<"CO2", 200>>, <<"CH4", 300>>, <<"H2O", 500>> >>,
       << <<"CO2", 0>> >>,
       << >>,
       << <<"N2", 1000>> >>,
       << <<"CO2", 500>>, <<"N2", 500>> >> >>
pass_names == {"utility1", "reactant2", "fuel3", "reactant4", "utility5"}
stream_names == {"reactant", "utility", "fuel"}
\* an identity that is none of the five passes
other_name == "plate9"

input(fn, rows, columns, name, kind, value) ==
    [fn |-> fn, rows |-> rows, columns |-> columns, name |-> name, kind |-> kind, value |-> value]

Inputs ==
    UNION {
        UNION {
            {input(fn, rows, columns, "", kind, 0) :
                fn \in {"unwrap_T", "convert_T_vector"},
                kind \in {"rising", "falling", "inlet", "short", "long"}},
            {input("intraplate_cond", rows, columns, pass, kind, t) :
                pass \in pass_names, kind \in {"uniform", "corner", "rising"}, t \in {2, T_switch + 1}},
            {input("advective_transfer", rows, columns, pass, kind, 3) :
                pass \in pass_names, kind \in {"inlet", "uniform", "corner", "rising"}},
            {input("ff_Nu", rows, columns, pass, kind, re) :
                pass \in pass_names, kind \in {"uniform", "corner"}, re \in ReValues},
            {input("ff_Nu", rows, columns, pass, "inviscid", re) :
                pass \in pass_names, re \in {1000, 5000}},
            {input("mol_frac_and_cp", rows, columns, stream, "composition", i) :
                stream \in stream_names, i \in 1..Len(Compositions)},
            {input("mol_frac_and_cp", rows, columns, "utility", kind, i) :
                kind \in {"hot1", "hot5"}, i \in 1..2},
            {input("update_" \o stream, rows, columns, stream, "fresh", i) :
                stream \in stream_names, i \in 1..Len(Compositions)} }
        : rows \in 1..OpsRows, columns \in 1..OpsCols }
    \cup
    \* the operations that run or follow a whole right-hand-side evaluation, on
    \* the grid shapes of the driver
    UNION {
        UNION {
            {input("transient_solver", rows, columns, stream, "inlet", i) :
                stream \in stream_names, i \in 1..Len(Compositions)},
            {input("transient_solver", rows, columns, "reactant", kind, 1) :
                kind \in {"perturbed", "short", "long", "empty"}},
            {input("properties", rows, columns, pass, "solved", 0) :
                pass \in pass_names \cup {other_name}},
            {input(fn, rows, columns, other_name, "solved", 0) :
                fn \in {"ff_Nu", "intraplate_cond", "advective_transfer"}},
            {input("update_" \o stream, rows, columns, stream, "solved", i) :
                stream \in stream_names, i \in 1..Len(Compositions)} }
        : rows \in 1..MaxRows, columns \in 1..MaxCols }

\* the flat vector of an input: all entries different, or the driver's initial_temps
input_vector(a, instance) ==
    LET n == 10 * a.rows * a.columns
    IN  IF a.kind = "rising" THEN array([i \in 1..n |-> i])
        ELSE IF a.kind = "falling" THEN array([i \in 1..n |-> 2 * (n - i)])
        ELSE IF a.kind = "perturbed" THEN Tvector(instance, 2)
        ELSE IF a.kind = "short" THEN SubSeq(initial_temps(instance), 1, n - 1)
        ELSE IF a.kind = "long" THEN Append(initial_temps(instance), T_switch)
        ELSE IF a.kind = "empty" THEN << >>
        \* the first cell of utility pass 1, or of utility pass 5, above 1000 K
        ELSE IF a.kind = "hot1" THEN perturbed(initial_temps(instance), n, 0, 0, T_switch + 1)
        ELSE IF a.kind = "hot5" THEN perturbed(initial_temps(instance), n, 4, 0, T_switch + 1)
        ELSE initial_temps(instance)

\* the grid of an input: one value everywhere, one value with the last cell
\* moved, or all cells different
input_grid(a, x, y) ==
    array([rc \in Cells(a.rows, a.columns) |->
        IF a.kind = "corner" /\ rc = <<a.rows - 1, a.columns - 1>> THEN y
        ELSE IF a.kind = "rising" THEN x + rc[1] * a.columns + rc[2]
        ELSE x])

\* the streams of an input: the driver's, one of them with the drawn composition
input_stream(a, stream, inlet) ==
    IF a.fn \in {"mol_frac_and_cp", "transient_solver"} /\ a.name = stream
    THEN [inlet EXCEPT ![1] = Compositions[a.value]]
    ELSE inlet

\* self.<name> = value
setattr(instance, name, value) ==
    [instance EXCEPT ![name] = value, !.attrs = @ \cup {name}]

\* the position an operation starts from: right after construction, or, for
\* the inputs of kind "solved", after one right-hand-side evaluation on the
\* driver's initial vector
first_rhs == "first_rhs"
ready(a) == IF a.kind = "solved" THEN first_rhs ELSE idle

\* the stream descriptor an update_* input carries: the driver's, with the drawn composition
new_stream(a) ==
    [(IF a.name = "reactant" THEN reactant_inlet
      ELSE IF a.name = "utility" THEN utility_inlet ELSE fuel_inlet)
        EXCEPT ![1] = Compositions[a.value]]

\* the temperature field [2] of the stream descriptor that feeds a pass
stream_T(instance, pass) ==
    IF pass \in {"utility1", "utility5"} THEN item(instance.utility, 2)
    ELSE IF pass = "fuel3" THEN item(instance.fuel, 2)
    ELSE item(instance.reactant, 2)

InitOps ==
    /\ arg \in Inputs
    /\ self = __init__(input_stream(arg, "reactant", reactant_inlet),
                       input_stream(arg, "utility", utility_inlet),
                       input_stream(arg, "fuel", fuel_inlet),
                       dimensions(arg.rows, arg.columns))
    /\ op = idle /\ res = idle
    /\ ret = no_call /\ memo = no_memo /\ npress = 0

UnwrapT ==
    /\ op = idle /\ arg.fn = "unwrap_T"
    /\ op' = "unwrap_T"
    /\ res' = unwrap_T(self, input_vector(arg, self))
    /\ UNCHANGED <<self, arg, ret, memo, npress>>

ConvertTVector ==
    /\ op = idle /\ arg.fn = "convert_T_vector"
    /\ op' = "convert_T_vector"
    /\ res' = convert_T_vector(input_vector(arg, self), self.dimensions)
    /\ UNCHANGED <<self, arg, ret, memo, npress>>

\* the plate grid is on the instance as line 900 leaves it
IntraplateCond ==
    /\ op = ready(arg) /\ arg.fn = "intraplate_cond"
    /\ \E s \in {IF arg.kind = "solved" THEN self
                 ELSE setattr(self, plate_names[arg.name],
                              input_grid(arg, arg.value, arg.value + 1))} :
           /\ op' = "intraplate_cond"
           /\ res' = intraplate_cond(s, arg.name)
           /\ self' = s
           /\ UNCHANGED <<arg, ret, memo, npress>>

\* the fluid grid is on the instance as line 898 leaves it; kind "inlet" is the
\* grid that holds the inlet temperature of the pass's stream in every cell
AdvectiveTransfer ==
    /\ op = ready(arg) /\ arg.fn = "advective_transfer"
    /\ \E s \in {IF arg.kind = "solved" THEN self
                 ELSE setattr(self, fluid_names[arg.name],
                         IF arg.kind = "inlet"
                         THEN full(arg.rows, arg.columns, stream_T(self, arg.name))
                         ELSE input_grid(arg, stream_T(self, arg.name) + 1,
                                         stream_T(self, arg.name)))} :
           /\ op' = "advective_transfer"
           /\ res' = advective_transfer(s, arg.name)
           /\ self' = s
           /\ UNCHANGED <<arg, ret, memo, npress>>

\* viscosity, Reynolds and Prandtl grids are on the instance as lines 911-935
\* leave them; the drawn Reynolds number sits in every cell or in all but the
\* last; the inputs of kind "inviscid" hold a zero viscosity in every cell
FfNu ==
    /\ op = ready(arg) /\ arg.fn = "ff_Nu"
    /\ \E s \in {IF arg.kind = "solved" THEN self
                 ELSE setattr(setattr(setattr(self,
                     arg.name \o "_mu",
                         full(arg.rows, arg.columns, IF arg.kind = "inviscid" THEN 0 ELSE 142)),
                     arg.name \o "_Pr", full(arg.rows, arg.columns, 700)),
                     arg.name \o "_Re", input_grid(arg, arg.value, Re_switch + 1))} :
           /\ op' = "ff_Nu"
           /\ res' = ff_Nu(s, arg.name)
           /\ self' = s
           /\ UNCHANGED <<arg, ret, memo, npress>>

\* the temperatures are on the instance as lines 898-900 leave them
MolFracAndCp ==
    /\ op = idle /\ arg.fn = "mol_frac_and_cp"
    /\ \E s \in {mol_frac_and_cp(store_T(self, unwrap_T(self, input_vector(arg, self)).grids))} :
           /\ op' = "mol_frac_and_cp"
           /\ res' = [exc |-> s.exc]
           /\ self' = s
           /\ UNCHANGED <<arg, ret, memo, npress>>

\* properties(fluid) on the instance one right-hand-side evaluation leaves
Properties ==
    /\ op = ready(arg) /\ arg.fn = "properties"
    /\ \E p \in {properties([self EXCEPT !.exc = "none"], arg.name)} :
           /\ op' = "properties"
           /\ res' = [exc |-> p.self.exc, mu |-> p.mu, k |-> p.k]
           /\ self' = p.self
           /\ UNCHANGED <<arg, ret, memo, npress>>

\* one call of transient_solver(t, T) on the constructed instance: the operation
\* under study, or the first right-hand-side evaluation that precedes it
TransientSolverOp ==
    /\ op = idle /\ (arg.fn = "transient_solver" \/ arg.kind = "solved")
    /\ \E r \in {transient_solver(self, input_vector(arg, self))} :
           /\ op' = (IF arg.fn = "transient_solver" THEN "transient_solver" ELSE first_rhs)
           /\ res' = [exc |-> r.exc, dTdt |-> r.dTdt]
           /\ self' = r.self
           /\ UNCHANGED <<arg, ret, memo, npress>>

\* update_reactant / update_fuel / update_utility right after construction
\* (kind "fresh") or after one right-hand-side evaluation (kind "solved")
UpdateReactant ==
    /\ op = ready(arg) /\ arg.fn = "update_reactant"
    /\ \E s \in {update_reactant(self, new_stream(arg))} :
           /\ op' = "update_reactant"
           /\ res' = [exc |-> s.exc, before |-> self]
           /\ self' = s
           /\ UNCHANGED <<arg, ret, memo, npress>>

UpdateFuel ==
    /\ op = ready(arg) /\ arg.fn = "update_fuel"
    /\ \E s \in {update_fuel(self, new_stream(arg))} :
           /\ op' = "update_fuel"
           /\ res' = [exc |-> s.exc, before |-> self]
           /\ self' = s
           /\ UNCHANGED <<arg, ret, memo, npress>>

UpdateUtility ==
    /\ op = ready(arg) /\ arg.fn = "update_utility"
    /\ \E s \in {update_utility(self, new_stream(arg))} :
           /\ op' = "update_utility"
           /\ res' = [exc |-> s.exc, before |-> self]
           /\ self' = s
           /\ UNCHANGED <<arg, ret, memo, npress>>

NextOps ==
    \/ UnwrapT
    \/ ConvertTVector
    \/ IntraplateCond
    \/ AdvectiveTransfer
    \/ FfNu
    \/ MolFracAndCp
    \/ Properties
    \/ TransientSolverOp
    \/ UpdateReactant
    \/ UpdateFuel
    \/ UpdateUtility

SpecOps == InitOps /\ [][NextOps]_vars

(***************************************************************************)
(* Properties of the single operations                                     *)
(***************************************************************************)
\* C1: for every grid shape and every flat vector of length 10*rows*columns,
\* unwrap_T followed by ravel and concatenate gives the vector back, element
\* for element
C1_RoundTrip ==
    op = "unwrap_T" /\ Len(input_vector(arg, self)) = 10 * arg.rows * arg.columns =>
        /\ res.exc = "none"
        /\ concatenate(res.grids, arg.rows, arg.columns) = input_vector(arg, self)

\* a vector of pairwise different values was unpacked into a grid that is not square
C1_Witness ==
    /\ op = "unwrap_T" /\ arg.kind = "rising"
    /\ arg.rows = 2 /\ arg.columns = 3
    /\ res.exc = "none"

\* cell (r, c) of field k is at flat position k*rows*columns + r*columns + c
layout(grids, v, rows, columns) ==
    \A k \in 0..9 : \A rc \in Cells(rows, columns) :
        grids[k + 1][rc] = v[k * rows * columns + rc[1] * columns + rc[2] + 1]

all_zero(g) == \A rc \in DOMAIN g : g[rc] = 0

\* C7: intraplate_cond of a plate grid that holds one temperature in every cell
\* is zero in every cell, edges and corners included, on every grid with at
\* least two rows and two columns
C7_UniformPlateNoConduction ==
    op = "intraplate_cond" /\ arg.kind = "uniform" /\ arg.name \in pass_names
         /\ arg.rows >= 2 /\ arg.columns >= 2 =>
        res.exc = "none" /\ all_zero(res.dTdtNet)

\* a uniform plate with interior, edge and corner cells
C7_Witness ==
    /\ op = "intraplate_cond" /\ arg.kind = "uniform"
    /\ arg.rows = 3 /\ arg.columns = 3
    /\ res.exc = "none"
    /\ DOMAIN res.dTdtNet = Cells(3, 3)

\* C8: advective_transfer of a fluid grid that holds the inlet temperature of
\* the pass's stream in every cell is zero in every cell, the inlet row or
\* column included
C8_InletFieldNoAdvection ==
    op = "advective_transfer" /\ arg.kind = "inlet" /\ arg.name \in pass_names =>
        res.exc = "none" /\ all_zero(res.deltaT)

\* a utility pass at its inlet temperature on a grid with several rows
C8_Witness ==
    /\ op = "advective_transfer" /\ arg.kind = "inlet"
    /\ arg.name = "utility5" /\ arg.rows = 2 /\ arg.columns = 2
    /\ res.exc = "none"
    /\ self.utility5_T[<<0, 0>>] = item(self.utility, 2)

\* the value of the family the threshold selects, at one cell
selected_branch(developed, x) ==
    IF IsNaN(x[2]) THEN [frictionfactor |-> NaN, nusselt |-> NaN]
    ELSE IF x[2] <= Re_switch
    THEN [laminar_f \in Any |->
            [frictionfactor |-> laminar_f,
             nusselt |-> nusselt_laminar_cell(laminar_f, x[2], x[3], x[4])]
         ][laminar_f_cell(developed, x[1], x[2])]
    ELSE [turbulent_f \in Any |->
            [frictionfactor |-> turbulent_f,
             nusselt |-> nusselt_turbulent_cell(turbulent_f, x[2], x[3])]
         ][turbulent_f_cell(x[2])]

sum_to_one(fractions) ==
    \A total \in {vsum([i \in 1..Len(fractions) |-> fractions[i][2]])} :
        IsFinite(total) /\ Abs(total - One) <= Len(fractions)

\* C10: for any composition map the mole fractions are all non-negative, sum to
\* one (to the rounding of the thousandths they are carried in) and keep the
\* species keys of the composition one to one
C10_MoleFractions ==
    op = "mol_frac_and_cp" /\ res.exc = "none" =>
        \A f \in {self[arg.name \o "_molefrac"]} :
            /\ keys(f) = keys(item(self[arg.name], 0))
            /\ \A i \in 1..Len(f) : IsFinite(f[i][2]) /\ f[i][2] >= 0
            /\ sum_to_one(f)

(***************************************************************************)
(* Properties of the driver's runs                                         *)
(***************************************************************************)
solved == ret.name = "transient_solver" /\ ret.exc = "none"

\* C3: on one instance, a call of transient_solver with a state vector returns
\* what the first call with that vector returned, whatever other vectors were
\* evaluated in between (the pressure fields being what they were)
C3_ReferentiallyConsistent ==
    ret.name = "transient_solver" =>
        /\ memo[ret.j].seq >= 1
        /\ ret.exc = memo[ret.j].exc
        /\ ret.dTdt = memo[ret.j].dTdt

\* a vector was evaluated, then another one, then the first one again
C3_Witness ==
    /\ solved
    /\ self.rows = 2 /\ self.columns = 2
    /\ memo[ret.j].seq = 3
    /\ ret.dTdt = memo[ret.j].dTdt
    /\ \E i \in 1..Len(ret.dTdt) : ret.dTdt[i] # 0

\* a second instance built from the same streams and geometry, nothing called on it
twin == __init__(self.reactant, self.utility, self.fuel, self.dimensions)
\* the same, holding the five pressure fields of the first instance
twin_at_pressures ==
    [twin EXCEPT !.utility1_P = self.utility1_P, !.reactant2_P = self.reactant2_P,
                 !.fuel3_P = self.fuel3_P, !.reactant4_P = self.reactant4_P,
                 !.utility5_P = self.utility5_P]
same_output(other) ==
    \A r \in {transient_solver(other, Tvector(self, ret.j))} :
        ret.exc = r.exc /\ ret.dTdt = r.dTdt

\* C4 as stated: the derivative vector depends on the streams, the geometry and
\* the state vector only, so an instance returns what a second instance with equal
\* streams and geometry returns, whatever was called on the first before
C4_FunctionOfStreamsGeometryState ==
    ret.name = "transient_solver" => same_output(twin)

\* C4, amended: the derivative vector depends on the streams, the geometry, the
\* five stored pressure fields and the state vector only; update_pressures
\* changes the pressure fields and with them the output
C4_FunctionOfStreamsGeometryPressuresState ==
    ret.name = "transient_solver" => same_output(twin_at_pressures)

\* a call after update_pressures has moved the pressure fields
C4_Witness ==
    /\ solved
    /\ npress >= 1
    /\ self.rows = 2 /\ self.columns = 2
    /\ self.reactant2_P # twin.reactant2_P
    /\ \E i \in 1..Len(ret.dTdt) : ret.dTdt[i] # 0

Q_names == <<"Q_utility1_fluid", "Q_reactant2_fluid", "Q_fuel3_fluid", "Q_reactant4_fluid",
             "Q_utility5_fluid", "Q_utilityPlate1", "Q_reactantPlate2", "Q_fuelPlate3",
             "Q_reactantPlate4", "Q_utilityPlate5">>
Q_total(rc) == vsum([k \in 1..10 |-> self[Q_names[k]][rc]])

\* C5: in every transient_solver call and at every cell the heat-rate terms of
\* each exchanging pair cancel, so the ten net heat rates Q sum to zero
C5_EnergyConserved ==
    solved => \A rc \in Cells(self.rows, self.columns) : Q_total(rc) = 0

positive(g) == \A rc \in DOMAIN g : IsFinite(g[rc]) /\ g[rc] > 0
non_increasing_along_rows(P, P0) ==
    \A rc \in DOMAIN P :
        P[rc] <= (IF rc[1] = 0 THEN P0 ELSE P[<<rc[1] - 1, rc[2]>>])
non_increasing_along_columns(P, P0) ==
    \A rc \in DOMAIN P :
        P[rc] <= (IF rc[2] = 0 THEN P0 ELSE P[<<rc[1], rc[2] - 1>>])
cold_start_done ==
    /\ ret.name = "update_pressures" /\ ret.cold /\ ret.exc = "none"
    /\ \A pass \in {"utility1", "reactant2", "fuel3", "reactant4", "utility5"} :
          /\ positive(self[pass \o "_f"])
          /\ positive(self[pass \o "_u"])
          /\ positive(self[pass \o "_rho"])

\* C6: after a cold-start update_pressures with positive friction factors,
\* velocities and densities, every pressure field is non-increasing along its flow
\* direction from the inlet pressure of its stream: the utility passes along the
\* rows, the reactant and fuel passes along the columns
C6_PressureNonIncreasing ==
    cold_start_done =>
        /\ non_increasing_along_rows(self.utility1_P, item(self.utility, 3))
        /\ non_increasing_along_rows(self.utility5_P, item(self.utility, 3))
        /\ non_increasing_along_columns(self.reactant2_P, item(self.reactant, 3))
        /\ non_increasing_along_columns(self.reactant4_P, item(self.reactant, 3))
        /\ non_increasing_along_columns(self.fuel3_P, item(self.fuel, 3))

\* a cold start on a 2 x 2 grid with a real drop in every cell
C6_Witness ==
    /\ cold_start_done
    /\ self.rows = 2 /\ self.columns = 2
    /\ self.reactant2_P[<<0, 1>>] < self.reactant2_P[<<0, 0>>]
    /\ self.reactant2_P[<<0, 0>>] < item(self.reactant, 3)
    /\ self.fuel3_P[<<1, 1>>] < self.fuel3_P[<<1, 0>>]
    /\ self.utility1_P[<<1, 0>>] < self.utility1_P[<<0, 0>>]
    /\ self.utility5_P[<<0, 1>>] < item(self.utility, 3)

(***************************************************************************)
(* Properties of one right-hand-side evaluation                            *)
(***************************************************************************)
\* the reference scenario of lines 1047-1063: the driver's three streams, every
\* pass and its own plate at the inlet temperature of its stream
reference_call ==
    /\ op = "transient_solver" /\ arg.kind = "inlet"
    /\ arg.name = "reactant" /\ arg.value = 1
    /\ arg.rows >= 2 /\ arg.columns >= 2

\* the entries of field k of a flat vector
field_values(v, k, rows, columns) ==
    {v[k * rows * columns + i] : i \in 1..(rows * columns)}

all_positive(values) == \A x \in values : IsFinite(x) /\ x > 0
all_negative(values) == \A x \in values : IsFinite(x) /\ x < 0

\* C11 as stated: on the uniform initial state one transient_solver call returns
\* a vector of the input's length in which every plate field that exchanges heat
\* with a reactant pass (utility plate 1, reactant plate 2, fuel plate 3,
\* reactant plate 4: lines 961-964) has a positive rate at every cell
C11_ReactantSidePlatesHeat ==
    reference_call =>
        /\ res.exc = "none"
        /\ Len(res.dTdt) = 10 * arg.rows * arg.columns
        /\ \A k \in {5, 6, 7, 8} :
              all_positive(field_values(res.dTdt, k, arg.rows, arg.columns))

\* C11 amended: on the uniform initial state one transient_solver call returns a
\* vector of the input's length in which the plates colder than the reactant
\* that touch a reactant pass (utility plate 1, fuel plate 3) have a positive
\* rate at every cell, while the reactant plates 2 and 4, which start at the
\* reactant's own temperature and face the colder fuel and utility passes, have
\* a negative rate at every cell
C11_ColderPlatesHeatReactantPlatesCool ==
    reference_call =>
        /\ res.exc = "none"
        /\ Len(res.dTdt) = 10 * arg.rows * arg.columns
        /\ \A k \in {5, 7} :
              all_positive(field_values(res.dTdt, k, arg.rows, arg.columns))
        /\ \A k \in {6, 8} :
              all_negative(field_values(res.dTdt, k, arg.rows, arg.columns))

\* the reference call on a 2 x 2 grid, with positive convective coefficients
C11_Witness ==
    /\ reference_call /\ res.exc = "none"
    /\ arg.rows = 2 /\ arg.columns = 2
    /\ positive(self.reactant2_h) /\ positive(self.reactant4_h)
    /\ positive(self.utility1_h) /\ positive(self.utility5_h) /\ positive(self.fuel3_h)
    /\ self.reactantPlate2_T = full(2, 2, item(self.reactant, 2))

\* C12: transient_solver, through unwrap_T, ends in an error for every vector
\* whose length is not 10*rows*columns, shorter or longer, and returns no
\* derivative vector for it
C12_WrongLengthRejected ==
    /\ op \in {"unwrap_T", "transient_solver"}
    /\ Len(input_vector(arg, self)) # 10 * arg.rows * arg.columns
    => res.exc # "none"

(***************************************************************************)
(* Properties of the error paths                                           *)
(***************************************************************************)
\* the drawn compositions that name a species the property table does not hold
UnknownCompositions ==
    {i \in 1..Len(Compositions) :
        \E n \in 1..Len(Compositions[i]) : Compositions[i][n][1] \notin Species}

\* the operations that run mol_frac_and_cp on the stream the input carries
recomputations ==
    {"mol_frac_and_cp", "transient_solver", "update_reactant", "update_fuel", "update_utility"}

\* C13: when a stream's composition names a species absent from the property
\* table, mol_frac_and_cp, update_reactant / update_fuel / update_utility and
\* transient_solver end in an error, the species lookup's KeyError whenever the
\* pass temperatures are on the instance, and transient_solver returns no
\* derivative vector
C13_UnknownSpeciesFatal ==
    op \in recomputations /\ arg.value \in UnknownCompositions =>
        /\ res.exc # "none"
        /\ T_attrs \subseteq self.attrs => res.exc = "KeyError"
        /\ op = "transient_solver" => res.dTdt = << >>

\* transient_solver on a 2 x 2 grid whose fuel is CO2 with the unknown N2
C13_Witness ==
    /\ op = "transient_solver" /\ arg.name = "fuel" /\ arg.value = 8
    /\ arg.rows = 2 /\ arg.columns = 2
    /\ item(self.fuel, 0)[2][1] \notin Species
    /\ res.exc = "KeyError" /\ res.dTdt = << >>

\* the drawn compositions of known species whose mole amounts sum to zero
DegenerateCompositions ==
    {i \in 1..Len(Compositions) :
        /\ \A n \in 1..Len(Compositions[i]) : Compositions[i][n][1] \in Species
        /\ vsum(nmol_of(Compositions[i], Len(Compositions[i]))) = 0}

\* C14: mol_frac_and_cp on a stream whose mole amounts sum to zero ends in an
\* error at the normalisation and stores no mole fractions, mean molecular
\* weight or cp coefficients for it
C14_DegenerateCompositionFatal ==
    /\ op \in {"mol_frac_and_cp", "update_reactant", "update_fuel", "update_utility"}
    /\ arg.value \in DegenerateCompositions
    => res.exc # "none"

\* the four selectors called with an identity that is none of the five passes,
\* after one right-hand-side evaluation has left its data on the instance
invalid_identity_call ==
    /\ op \in {"ff_Nu", "properties", "intraplate_cond", "advective_transfer"}
    /\ arg.name = other_name

\* C15 as stated: given an identity that is none of the five passes or plates,
\* ff_Nu, properties, intraplate_cond and advective_transfer log a message and
\* carry on, returning a result computed from the data of an earlier call
C15_InvalidIdentityCarriesOn ==
    invalid_identity_call => res.exc = "none"

\* C15 amended: given an identity that is none of the five passes or plates,
\* ff_Nu, properties, intraplate_cond and advective_transfer print their message
\* and then fail with UnboundLocalError at the first read of the local name that
\* only the five branches bind (Pr, composition, temps); no result is returned
C15_InvalidIdentityFails ==
    invalid_identity_call => res.exc = "UnboundLocalError"

\* advective_transfer('plate9') on a 2 x 2 instance that holds the fields of an
\* earlier right-hand-side evaluation
C15_Witness ==
    /\ invalid_identity_call /\ op = "advective_transfer"
    /\ arg.rows = 2 /\ arg.columns = 2
    /\ {"reactant2_T", "reactant2_Pr", "Q_reactantPlate2"} \subseteq self.attrs
    /\ res.exc = "UnboundLocalError"

(***************************************************************************)
(* Properties of the stream updates                                        *)
(***************************************************************************)
updates == {"update_reactant", "update_fuel", "update_utility"}

\* the stream descriptor an update_* call has to leave on the instance
updated_stream ==
    IF op = "update_reactant" THEN self.reactant
    ELSE IF op = "update_fuel" THEN self.fuel ELSE self.utility

\* C16: in every state after construction, before the first right-hand-side
\* evaluation included, update_reactant, update_fuel and update_utility called
\* with a stream of known species and positive amounts store the new stream
\* descriptor and complete the recomputation of mole fractions, mean molecular
\* weights and cp coefficients; no other operation changes a stream descriptor
C16_UpdateReplacesAndRecomputes ==
    /\ op \in updates /\ arg.value \notin (UnknownCompositions \cup DegenerateCompositions) =>
          /\ updated_stream = new_stream(arg)
          /\ res.exc = "none"
          /\ (molefrac_attrs \cup MW_attrs) \subseteq self.attrs
    /\ op \notin updates =>
          /\ self.reactant = input_stream(arg, "reactant", reactant_inlet)
          /\ self.utility = input_stream(arg, "utility", utility_inlet)
          /\ self.fuel = input_stream(arg, "fuel", fuel_inlet)

(***************************************************************************)
(* Properties of the pressure fields                                       *)
(***************************************************************************)
pressure_fields == {"utility1_P", "reactant2_P", "fuel3_P", "reactant4_P", "utility5_P"}

\* the attributes __init__ derives from the dimensions (lines 79-143)
geometry_fields ==
    {"dimensions", "rows", "columns", "reactant_cs", "utility_cs", "fuel_cs",
     "reactant_dh", "utility_dh", "fuel_dh", "deltax", "deltay", "deltaz",
     "reactant_Vcell", "utility_Vcell", "fuel_Vcell",
     "reactantPlate_Vcell", "utilityPlate_Vcell", "fuelPlate_Vcell",
     "hx_area_1", "hx_area_2", "hx_area_3", "hx_area_4", "hx_area_5", "hx_area_6",
     "hx_area_rP_x", "hx_area_rP_z", "hx_area_uP_x", "hx_area_uP_z",
     "hx_area_fP_x", "hx_area_fP_z"}

\* C17: a transient_solver call (a step of the driver that is no update_pressures
\* call) leaves the five pressure fields, the three stream descriptors, the
\* grid shape and every geometry-derived attribute as they were; a step that
\* changes a pressure field is an update_pressures call
C17_SolverLeavesPressuresStreamsGeometry ==
    [][/\ npress' = npress =>
            /\ ret'.name = "transient_solver"
            /\ \A f \in pressure_fields \cup geometry_fields \cup {"reactant", "utility", "fuel"} :
                  self'[f] = self[f]
       /\ (\E f \in pressure_fields : self'[f] # self[f]) =>
            /\ ret'.name = "update_pressures"
            /\ npress' = npress + 1]_vars

\* a transient_solver call that ran on developed pressure fields and left them developed
C17_Witness ==
    /\ ret.name = "transient_solver" /\ ret.exc = "none"
    /\ npress >= 1
    /\ self.rows = 2 /\ self.columns = 2
    /\ self.reactant2_P[<<0, 1>>] < self.reactant2_P[<<0, 0>>]
    /\ self.utility1_P[<<1, 0>>] < self.utility1_P[<<0, 0>>]

\* the inlet pressure of the stream that feeds the pass of a pressure field
inlet_P(f) ==
    IF f \in {"utility1_P", "utility5_P"} THEN item(self.utility, 3)
    ELSE IF f = "fuel3_P" THEN item(self.fuel, 3)
    ELSE item(self.reactant, 3)

\* every pressure field holds the inlet pressure of its stream in every cell
pressures_initial ==
    \A f \in pressure_fields : self[f] = full(self.rows, self.columns, inlet_P(f))

\* the five passes have positive friction factors, velocities and densities,
\* hence positive losses
positive_losses ==
    \A pass \in pass_names :
        /\ {pass \o "_f", pass \o "_u", pass \o "_rho"} \subseteq self.attrs
        /\ positive(self[pass \o "_f"])
        /\ positive(self[pass \o "_u"])
        /\ positive(self[pass \o "_rho"])

\* C18: the five pressure fields are uniform at their stream's inlet pressure
\* until the first update_pressures call; the first call takes the cold branch;
\* with positive losses every later call takes the warm branch, on every grid
\* shape; the branch is the cold one exactly when the fields still hold their
\* initial uniform values
C18_PressureLifecycle ==
    /\ [](npress = 0 => pressures_initial)
    /\ [][npress' = npress + 1 =>
            /\ npress = 0 => ret'.cold
            /\ npress >= 1 /\ ret.name = "update_pressures" /\ ret.exc = "none"
                  /\ positive_losses => ~ret'.cold
            /\ ret'.cold <=> pressures_initial]_vars

\* the loss of a pass at every cell, from the friction factor, velocity and
\* density stored by the last right-hand-side evaluation
pass_loss(s, pass) ==
    IF pass \in {"utility1", "utility5"}
    THEN deltaP_grid(s, s[pass \o "_f"], s.deltaz, s.utility_dh, s[pass \o "_u"], s[pass \o "_rho"])
    ELSE IF pass = "fuel3"
    THEN deltaP_grid(s, s[pass \o "_f"], s.deltax, s.fuel_dh, s[pass \o "_u"], s[pass \o "_rho"])
    ELSE deltaP_grid(s, s[pass \o "_f"], s.deltax, s.reactant_dh, s[pass \o "_u"], s[pass \o "_rho"])

\* the utility passes flow along the rows, the reactant and fuel passes along
\* the columns
on_inlet_edge(pass, rc) == IF roll_dir(pass) = 0 THEN rc[1] = 0 ELSE rc[2] = 0
upstream(pass, rc) == IF roll_dir(pass) = 0 THEN <<rc[1] - 1, rc[2]>> ELSE <<rc[1], rc[2] - 1>>

warm_call == ret'.name = "update_pressures" /\ ~ret'.cold /\ ret'.exc = "none"

\* C19: a warm update_pressures call leaves, in each of the five pressure
\* fields, the cells of the inlet edge of the pass's flow direction at the
\* pass's own stream inlet pressure minus the loss of the cell, and every other
\* cell at the previous field's upstream neighbour minus the new loss
C19_WarmResetsInletEdge ==
    [][warm_call =>
         \A pass \in pass_names :
             \A rc \in Cells(self.rows, self.columns) :
                 self'[pass \o "_P"][rc] =
                     fsub(IF on_inlet_edge(pass, rc) THEN inlet_P(pass \o "_P")
                          ELSE self[pass \o "_P"][upstream(pass, rc)],
                          pass_loss(self, pass)[rc])]_vars

\* the last operation was a completed update_pressures call and the five passes
\* have positive losses
update_done ==
    /\ ret.name = "update_pressures" /\ ret.exc = "none"
    /\ positive_losses

\* C20: after any sequence of update_pressures calls (a cold one, then warm
\* ones) with positive losses, no cell of a pressure field holds a higher
\* pressure than its upstream neighbour along the flow direction and no cell
\* exceeds the inlet pressure of its stream
C20_NonIncreasingAfterEveryUpdate ==
    update_done =>
        /\ non_increasing_along_rows(self.utility1_P, inlet_P("utility1_P"))
        /\ non_increasing_along_rows(self.utility5_P, inlet_P("utility5_P"))
        /\ non_increasing_along_columns(self.reactant2_P, inlet_P("reactant2_P"))
        /\ non_increasing_along_columns(self.reactant4_P, inlet_P("reactant4_P"))
        /\ non_increasing_along_columns(self.fuel3_P, inlet_P("fuel3_P"))
        /\ \A f \in pressure_fields :
              \A rc \in Cells(self.rows, self.columns) : self[f][rc] <= inlet_P(f)

cold_call == ret'.name = "update_pressures" /\ ret'.cold /\ ret'.exc = "none"

\* C21: a cold update_pressures call marches each field from its inlet edge:
\* the cells of the inlet edge (row 0 of the utility passes, column 0 of the
\* reactant and fuel passes) hold the pass's own stream inlet pressure minus the
\* loss of the cell, and every other cell holds the new value of its upstream
\* neighbour minus the loss of the cell
C21_ColdMarchesFromInlet ==
    [][cold_call =>
         \A pass \in pass_names :
             \A rc \in Cells(self.rows, self.columns) :
                 self'[pass \o "_P"][rc] =
                     fsub(IF on_inlet_edge(pass, rc) THEN inlet_P(pass \o "_P")
                          ELSE self'[pass \o "_P"][upstream(pass, rc)],
                          pass_loss(self, pass)[rc])]_vars

\* a completed cold call on a 2 x 2 grid with a real loss in the marched cells
C21_Witness ==
    /\ ret.name = "update_pressures" /\ ret.cold /\ ret.exc = "none"
    /\ self.rows = 2 /\ self.columns = 2
    /\ pass_loss(self, "utility1")[<<0, 0>>] > 0
    /\ pass_loss(self, "fuel3")[<<1, 1>>] > 0
    /\ self.utility5_P[<<1, 1>>] < self.utility5_P[<<0, 1>>]
    /\ self.reactant4_P[<<1, 1>>] < self.reactant4_P[<<1, 0>>]

(***************************************************************************)
(* Properties of the advection and conduction stencils                     *)
(***************************************************************************)
\* the fluid grid advective_transfer was applied to
advected == self[fluid_names[arg.name]]

\* C22: advective_transfer returns upstream minus local in every cell without
\* wrap-around: a cell off the inlet edge gets the temperature of its upstream
\* neighbour (the previous row for the utility passes, the previous column for
\* the reactant and fuel passes) minus its own, a cell of the inlet edge gets
\* the inlet temperature of the pass's own stream minus its own
C22_UpstreamMinusLocal ==
    op = "advective_transfer" /\ arg.name \in pass_names =>
        /\ res.exc = "none"
        /\ \A rc \in Cells(self.rows, self.columns) :
              res.deltaT[rc] =
                  fsub(IF on_inlet_edge(arg.name, rc) THEN stream_T(self, arg.name)
                       ELSE advected[upstream(arg.name, rc)],
                       advected[rc])

\* a 3 x 3 grid with all cells different: the outlet line differs from the inlet
\* temperature, so a wrapped value would show on the inlet line
C22_Witness ==
    /\ op = "advective_transfer" /\ arg.kind = "rising"
    /\ arg.name = "fuel3" /\ arg.rows = 3 /\ arg.columns = 3
    /\ res.exc = "none"
    /\ advected[<<1, 2>>] # stream_T(self, "fuel3")
    /\ res.deltaT[<<1, 0>>] = stream_T(self, "fuel3") - advected[<<1, 0>>]
    /\ res.deltaT[<<1, 1>>] = advected[<<1, 0>>] - advected[<<1, 1>>]

\* the plate grid intraplate_cond was applied to
conducted == self[plate_names[arg.name]]

\* the insulated second difference of three neighbouring values along one
\* direction: i is the position along it, n the number of lines, lo, mid and hi
\* the values at i-1, i and i+1 (only those inside the grid are used)
insulated_stencil(i, n, lo, mid, hi, delta) ==
    IF i = 0 THEN fdiv(fmul(fmul(2, fsub(hi, mid)), One), fpow(delta, 2))
    ELSE IF i = n - 1 THEN fdiv(fmul(fmul(2, fsub(lo, mid)), One), fpow(delta, 2))
    ELSE fdiv(fmul(fadd(fsub(hi, fmul(2, mid)), lo), One), fpow(delta, 2))

\* the value of a grid at a cell, 0 for a position outside the grid
inside(g, r, c) == IF <<r, c>> \in DOMAIN g THEN g[<<r, c>>] ELSE 0

\* C23: on a grid with at least three rows and three columns intraplate_cond
\* has insulated edges and no wrap-around: in each direction an edge cell gets
\* 2*(T[in-grid neighbour] - T[edge]) over the pitch squared and an interior
\* cell T[i-1] - 2*T[i] + T[i+1] over the pitch squared, so that no cell takes
\* the value of the opposite edge
C23_InsulatedEdges ==
    op = "intraplate_cond" /\ arg.name \in pass_names
         /\ arg.rows >= 3 /\ arg.columns >= 3 =>
        /\ res.exc = "none"
        /\ \A rc \in Cells(self.rows, self.columns) :
              res.dTdtNet[rc] =
                  fmul(fadd(insulated_stencil(rc[2], self.columns,
                                inside(conducted, rc[1], rc[2] - 1), conducted[rc],
                                inside(conducted, rc[1], rc[2] + 1), self.deltax),
                            insulated_stencil(rc[1], self.rows,
                                inside(conducted, rc[1] - 1, rc[2]), conducted[rc],
                                inside(conducted, rc[1] + 1, rc[2]), self.deltaz)),
                       fdiv(self.metalk, fmul(self.metalrho, self.metalcp)))

\* a 3 x 3 plate with all cells different: edge, corner and interior cells, and
\* a corner whose opposite edges hold other values than its neighbours
C23_Witness ==
    /\ op = "intraplate_cond" /\ arg.kind = "rising"
    /\ arg.rows = 3 /\ arg.columns = 3
    /\ res.exc = "none"
    /\ conducted[<<0, 2>>] # conducted[<<0, 1>>]
    /\ conducted[<<2, 0>>] # conducted[<<1, 0>>]
    /\ res.dTdtNet[<<0, 0>>] # 0

(***************************************************************************)
(* Properties of the mixture coefficients                                  *)
(***************************************************************************)
\* the stream a pass belongs to
stream_of(pass) ==
    IF pass \in {"utility1", "utility5"} THEN "utility"
    ELSE IF pass = "fuel3" THEN "fuel" ELSE "reactant"

\* the sum over the first n species of moles times the coefficient j of one
\* temperature range
RECURSIVE range_sum(_, _, _, _, _)
range_sum(j, composition, nmol, n, low) ==
    IF n = 0 THEN 0
    ELSE fadd(range_sum(j, composition, nmol, n - 1, low),
              fmul(nmol[n], IF low THEN cp_list_low(j)[composition[n][1]]
                            ELSE cp_list_high(j)[composition[n][1]]))

\* the mole-weighted mean of coefficient j over the species of a composition,
\* of the low range for a temperature up to 1000 K and of the high range above
range_mean(j, composition, t) ==
    [comp \in Any |->
        [nmol \in Any |->
            fdiv(range_sum(j, comp, nmol, Len(comp), t <= T_switch), vsum(nmol))][
            nmol_of(comp, Len(comp))]][composition]

\* C24: after mol_frac_and_cp, for each pass and each of the five
\* coefficients, the mixture coefficient at a cell is the mole-fraction-weighted
\* mean of the species' low-range coefficients where that pass's temperature is
\* at most 1000 K and of the high-range coefficients where it is above: it
\* depends on the stream composition and that pass's own temperature only
C24_CoefficientByOwnTemperature ==
    op = "mol_frac_and_cp" /\ res.exc = "none"
         /\ arg.value \notin DegenerateCompositions =>
        \A pass \in pass_names : \A j \in 1..5 :
            \A rc \in Cells(self.rows, self.columns) :
                self["cp_a_" \o pass][j][rc] =
                    range_mean(j, item(self[stream_of(pass)], 0), self[fluid_names[pass]][rc])

(***************************************************************************)
(* Properties of the order inside one right-hand-side evaluation           *)
(***************************************************************************)
\* the attributes transient_solver derives anew in every call
derived_attrs ==
    T_attrs \cup cp_a_attrs \cup molefrac_attrs \cup MW_attrs
      \cup {pass \o "_" \o q : pass \in pass_names,
                q \in {"rho", "cp", "mu", "k", "u", "Pr", "Re", "f", "Nu", "h"}}
      \cup {Q_names[k] : k \in 1..10}

C27_OwnStreamMolecularWeight ==
    op = "transient_solver" /\ res.exc = "none" =>
        \A pass \in pass_names :
            self[pass \o "_cp"] =
                cp_grid(self, self["cp_a_" \o pass], self[stream_of(pass) \o "_MW"],
                        self[fluid_names[pass]])

(***************************************************************************)
(* Properties of update_pressures on every grid shape                      *)
(***************************************************************************)
\* the friction factors, velocities and densities of the five passes are on
\* the instance
flow_state_stored ==
    \A pass \in pass_names :
        {pass \o "_f", pass \o "_u", pass \o "_rho"} \subseteq self.attrs

\* C28: on every grid shape, square or not, in cold and in warm mode and after
\* any number of calls, update_pressures completes and leaves every pressure
\* field with the shape rows x columns
C28_UpdateCompletesOnEveryShape ==
    [][ret'.name = "update_pressures" /\ flow_state_stored =>
          /\ ret'.exc = "none"
          /\ \A f \in pressure_fields :
                DOMAIN self'[f] = Cells(self.rows, self.columns)]_vars

(***************************************************************************)
(* Properties of the shipped driver loop                                   *)
(***************************************************************************)
\* update_pressures called on a freshly constructed instance of the same
\* streams and geometry fails and leaves the five pressure fields as built
fresh_update_fails ==
    \A s \in {update_pressures(twin)} :
        /\ \A pass \in pass_names : (pass \o "_f") \notin twin.attrs
        /\ s.exc = "AttributeError"
        /\ \A f \in pressure_fields : s[f] = twin[f]

\* C29: update_pressures needs the friction factor, velocity and density of
\* every pass, which only transient_solver writes: on a freshly constructed
\* instance it fails and leaves the pressure fields unchanged, and in the driver
\* loop every update_pressures call comes after a transient_solver call, so
\* that it finds them stored
C29_UpdateNeedsFlowState ==
    /\ []fresh_update_fails
    /\ [][ret'.name = "update_pressures" =>
            /\ npress' = npress + 1
            /\ ret.name = "transient_solver"
            /\ flow_state_stored
            /\ ret'.exc # "AttributeError"]_vars

\* the driver has called update_pressures after a right-hand-side evaluation
C29_Witness ==
    /\ ret.name = "update_pressures" /\ ret.exc = "none"
    /\ npress = 1
    /\ self.rows = 2 /\ self.columns = 2
    /\ flow_state_stored
    /\ self.reactant2_P # twin.reactant2_P

(***************************************************************************)
(* Properties of a failed stream update                                    *)
(***************************************************************************)
\* what a stream update may change: the three descriptors, the mole fractions,
\* the mean molecular weights and the cp coefficients
stream_state ==
    {"reactant", "utility", "fuel"} \cup molefrac_attrs \cup MW_attrs \cup cp_a_attrs

\* C30: a stream update that fails is atomic: when update_reactant, update_fuel
\* or update_utility ends with an error, the stream descriptors, the mole
\* fractions, the mean molecular weights and the cp coefficients on the instance
\* are what they were before the call
C30_FailedUpdateAtomic ==
    op \in {"update_reactant", "update_fuel", "update_utility"} /\ res.exc # "none" =>
        \A a \in stream_state :
            /\ self[a] = res.before[a]
            /\ (a \in self.attrs) <=> (a \in res.before.attrs)

====
